---------------------------- MODULE Spec2Model ----------------------------
(***************************************************************************)
(* A model of the ApplicationSet expansion engine of argocd-validate-action *)
(* (src/src/appset.py and the substitution helpers of src/src/models.py).   *)
(*                                                                         *)
(* Python values are modelled as tagged records:                           *)
(*   StrV(s)   a str, s the sequence of its characters                      *)
(*   IntV(n)   an int                                                       *)
(*   ListV(xs) a list                                                       *)
(*   DictV(it) a dict, it the sequence of its <<key, value>> items in       *)
(*            insertion order (keys are character sequences, unique)       *)
(*   NoneV     None                                                         *)
(* A parameter set (dict[str, Any]) is held as its bare item sequence.     *)
(* Generator configurations, whose keys come from a fixed vocabulary, are  *)
(* TLA+ records; a key is present iff it is in the record's DOMAIN.        *)
(***************************************************************************)
EXTENDS Integers, Sequences, FiniteSets, TLC

VARIABLES
    pc,            \* position of the operation under way
    appset,        \* expand_application_set: the ApplicationSet (generators, template)
    resolver,      \* the RepoResolver collaborator: its repositories, cache and clones
    fs,            \* the filesystem: base path -> the directories and files below it
    gi,            \* expand_application_set: index of the next generator of the first loop
    all_params,    \* expand_application_set: all_params
    applications,  \* expand_application_set: applications
    generator,     \* _expand_generator: generator
    result,        \* the value returned by the operation under way
    params,        \* _apply_selector: params
    selector,      \* _apply_selector: selector
    obj,           \* substitute_params_deep: obj
    tparams,       \* substitute_params_deep: params
    heap,          \* the objects in memory: address -> map or sequence
    args           \* compare_manifests: state_dir, manifests_dir; update_state of each call

vars == <<pc, appset, resolver, fs, gi, all_params, applications, generator, result,
          params, selector, obj, tparams, heap, args>>

\* The value of a variable the specification at hand does not use.
Unused == <<>>

-----------------------------------------------------------------------------
(* Python values *)

StrV(s) == [t |-> "str", s |-> s]
IntV(n) == [t |-> "int", n |-> n]
ListV(xs) == [t |-> "list", xs |-> xs]
DictV(items) == [t |-> "dict", items |-> items]
NoneV == [t |-> "none"]

Digit(d) == <<"0", "1", "2", "3", "4", "5", "6", "7", "8", "9">>[d + 1]

RECURSIVE Digits(_)
Digits(n) == IF n < 10 THEN <<Digit(n)>> ELSE Digits(n \div 10) \o <<Digit(n % 10)>>

\* rec.get(f, default) and `f in rec` for a configuration record
Has(rec, f) == f \in DOMAIN rec
Get(rec, f, default) == IF Has(rec, f) THEN rec[f] ELSE default

\* sum(len(x) for x in lists) and the concatenation of the lists
RECURSIVE Flat(_)
Flat(lists) == IF lists = <<>> THEN <<>> ELSE Head(lists) \o Flat(Tail(lists))

\* str(v) for the scalar values a parameter set holds
PyStr(v) ==
    IF v.t = "str" THEN v.s
    ELSE IF v.n < 0 THEN <<"-">> \o Digits(0 - v.n) ELSE Digits(v.n)

\* sep.join(parts)
RECURSIVE Join(_, _)
Join(sep, parts) ==
    IF parts = <<>> THEN <<>>
    ELSE IF Len(parts) = 1 THEN parts[1]
    ELSE parts[1] \o sep \o Join(sep, Tail(parts))

\* text.replace(old, new), old not empty: left to right, non-overlapping
RECURSIVE Replace(_, _, _)
Replace(text, old, new) ==
    IF Len(text) < Len(old) THEN text
    ELSE IF SubSeq(text, 1, Len(old)) = old
         THEN new \o Replace(SubSeq(text, Len(old) + 1, Len(text)), old, new)
         ELSE <<Head(text)>> \o Replace(Tail(text), old, new)

-----------------------------------------------------------------------------
(* dict: item sequences in insertion order *)

Keys(d) == [i \in 1..Len(d) |-> d[i][1]]
KeySet(d) == {d[i][1] : i \in 1..Len(d)}
DictHas(d, k) == k \in KeySet(d)
DictIndex(d, k) == CHOOSE i \in 1..Len(d) : d[i][1] = k
\* d.get(k, default)
DictGet(d, k, default) == IF DictHas(d, k) THEN d[DictIndex(d, k)][2] ELSE default
\* d[k] = v: an existing key keeps its place, a new key goes last
DictSet(d, k, v) ==
    IF DictHas(d, k) THEN [d EXCEPT ![DictIndex(d, k)] = <<k, v>>]
    ELSE Append(d, <<k, v>>)
\* d.update(e) / dict(items)
RECURSIVE DictUpdate(_, _)
DictUpdate(d, e) ==
    IF e = <<>> THEN d ELSE DictUpdate(DictSet(d, Head(e)[1], Head(e)[2]), Tail(e))
\* list(d.values())
DictValues(d) == [i \in 1..Len(d) |-> d[i][2]]
\* d == e in Python: the same keys with the same values, whatever the order
DictEq(d, e) ==
    /\ KeySet(d) = KeySet(e)
    /\ \A k \in KeySet(d) : DictGet(d, k, Unused) = DictGet(e, k, Unused)


-----------------------------------------------------------------------------
(* src/src/models.py *)

\* sorted(keys, key=len, reverse=True): a stable sort, equal lengths keep
\* their insertion order
RECURSIVE InsertByLen(_, _)
InsertByLen(s, k) ==
    IF s = <<>> THEN <<k>>
    ELSE IF Len(Head(s)) >= Len(k) THEN <<Head(s)>> \o InsertByLen(Tail(s), k)
    ELSE <<k>> \o s

RECURSIVE SortedByLenDesc(_)
SortedByLenDesc(keys) ==
    IF keys = <<>> THEN <<>>
    ELSE InsertByLen(SortedByLenDesc(SubSeq(keys, 1, Len(keys) - 1)), keys[Len(keys)])

\* a slip that forgets the closing braces of the token
TokenOpenOnly(key) == <<"{", "{">> \o key

\* "{{" + key + "}}"
Token(key) == <<"{", "{">> \o key \o <<"}", "}">>

\* the loop of substitute_params over the keys still to process
RECURSIVE SubstituteKeys(_, _, _)
SubstituteKeys(text, keys, p) ==
    IF keys = <<>> THEN text
    ELSE SubstituteKeys(Replace(text, Token(Head(keys)), PyStr(DictGet(p, Head(keys), Unused))),
                        Tail(keys), p)

substitute_params(text, p) == SubstituteKeys(text, SortedByLenDesc(Keys(p)), p)

RECURSIVE substitute_params_deep(_, _)
substitute_params_deep(o, p) ==
    IF o.t = "str" THEN StrV(substitute_params(o.s, p))
    ELSE IF o.t = "dict"
         THEN DictV([i \in 1..Len(o.items) |->
                        <<o.items[i][1], substitute_params_deep(o.items[i][2], p)>>])
    ELSE IF o.t = "list"
         THEN ListV([i \in 1..Len(o.xs) |-> substitute_params_deep(o.xs[i], p)])
    ELSE o

-----------------------------------------------------------------------------
(* src/src/appset.py: helpers *)

\* _flatten_dict(d, parent_key, sep="."): d the items of a dict
\* the recursive call returns a dict, so its items are already deduplicated
RECURSIVE flatten_dict(_, _)
flatten_dict(d, parent_key) ==
    LET Items(dd) ==
            Flat([i \in 1..Len(dd) |->
                LET k == dd[i][1]
                    v == dd[i][2]
                    new_key == IF parent_key # <<>> THEN parent_key \o <<".">> \o k ELSE k
                IN  IF v.t = "dict" THEN flatten_dict(v.items, new_key)
                    ELSE << <<new_key, v>> >>])
    IN  DictUpdate(<<>>, Items(d))

\* _make_merge_key
make_merge_key(p, merge_keys) ==
    Join(<<"|">>, [i \in 1..Len(merge_keys) |-> PyStr(DictGet(p, merge_keys[i], StrV(<<>>)))])

\* x in [str(v) for v in values]
InStrs(x, values) == \E i \in 1..Len(values) : PyStr(values[i]) = x

\* a slip that tests Exists and DoesNotExist on the value, a missing key
\* counting as the empty string
ExprHoldsByValue(p, expr) ==
    LET key == Get(expr, "key", <<>>)
        operator == Get(expr, "operator", "")
        values == Get(expr, "values", <<>>)
        param_value == PyStr(DictGet(p, key, StrV(<<>>)))
    IN  IF operator = "In" THEN InStrs(param_value, values)
        ELSE IF operator = "NotIn" THEN ~InStrs(param_value, values)
        ELSE IF operator = "Exists" THEN param_value # <<>>
        ELSE IF operator = "DoesNotExist" THEN param_value = <<>>
        ELSE TRUE

\* one iteration of the matchExpressions loop of _matches_selector: TRUE unless
\* it returns False
ExprHolds(p, expr) ==
    LET key == Get(expr, "key", <<>>)
        operator == Get(expr, "operator", "")
        values == Get(expr, "values", <<>>)
        param_value == PyStr(DictGet(p, key, StrV(<<>>)))
    IN  IF operator = "In" THEN InStrs(param_value, values)
        ELSE IF operator = "NotIn" THEN ~InStrs(param_value, values)
        ELSE IF operator = "Exists" THEN DictHas(p, key)
        ELSE IF operator = "DoesNotExist" THEN ~DictHas(p, key)
        ELSE TRUE

matches_selector(p, match_labels, match_expressions) ==
    /\ \A i \in 1..Len(match_labels) :
          PyStr(DictGet(p, match_labels[i][1], StrV(<<>>))) = PyStr(match_labels[i][2])
    /\ \A i \in 1..Len(match_expressions) : ExprHolds(p, match_expressions[i])

\* the loop of _apply_selector
RECURSIVE SelectorLoop(_, _, _)
SelectorLoop(ps, match_labels, match_expressions) ==
    IF ps = <<>> THEN <<>>
    ELSE (IF matches_selector(Head(ps), match_labels, match_expressions)
          THEN <<Head(ps)>> ELSE <<>>)
         \o SelectorLoop(Tail(ps), match_labels, match_expressions)

apply_selector(ps, sel) ==
    SelectorLoop(ps, Get(sel, "matchLabels", <<>>), Get(sel, "matchExpressions", <<>>))

-----------------------------------------------------------------------------
(* characters and paths *)

UpperChars == <<"A", "B", "C", "D", "E", "F", "G", "H", "I", "J", "K", "L", "M", "N", "O", "P", "Q", "R", "S", "T", "U", "V", "W", "X", "Y", "Z">>
LowerChars == <<"a", "b", "c", "d", "e", "f", "g", "h", "i", "j", "k", "l", "m", "n", "o", "p", "q", "r", "s", "t", "u", "v", "w", "x", "y", "z">>
DigitChars == <<"0", "1", "2", "3", "4", "5", "6", "7", "8", "9">>
\* the other characters the model's strings use, with their code points
OtherChars == <<" ", "*", "-", ".", "/", ":", "?", "@", "_", "{", "|", "}">>
OtherCodes == <<32, 42, 45, 46, 47, 58, 63, 64, 95, 123, 124, 125>>

IndexIn(c, table) == CHOOSE i \in 1..Len(table) : table[i] = c
IsIn(c, table) == \E i \in 1..Len(table) : table[i] = c

\* ord(c)
Ord(c) ==
    IF IsIn(c, UpperChars) THEN 64 + IndexIn(c, UpperChars)
    ELSE IF IsIn(c, LowerChars) THEN 96 + IndexIn(c, LowerChars)
    ELSE IF IsIn(c, DigitChars) THEN 47 + IndexIn(c, DigitChars)
    ELSE OtherCodes[IndexIn(c, OtherChars)]

\* a < b for str: by code point, a proper prefix first
RECURSIVE StrLess(_, _)
StrLess(a, b) ==
    IF b = <<>> THEN FALSE
    ELSE IF a = <<>> THEN TRUE
    ELSE IF Head(a) = Head(b) THEN StrLess(Tail(a), Tail(b))
    ELSE Ord(Head(a)) < Ord(Head(b))

\* a slip that compares the paths as the strings they print as
PathLessAsStrings(a, b) ==
    LET Str(parts) == IF parts = <<>> THEN <<".">>
                      ELSE Join(<<"/">>, parts)
    IN  StrLess(Str(a), Str(b))

\* a < b for PurePosixPath: the tuples of parts are compared
RECURSIVE PathLess(_, _)
PathLess(a, b) ==
    IF b = <<>> THEN FALSE
    ELSE IF a = <<>> THEN TRUE
    ELSE IF Head(a) = Head(b) THEN PathLess(Tail(a), Tail(b))
    ELSE StrLess(Head(a), Head(b))

\* sorted(paths) for a set of paths
RECURSIVE SortedPaths(_)
SortedPaths(S) ==
    IF S = {} THEN <<>>
    ELSE LET m == CHOOSE x \in S : \A y \in S \ {x} : PathLess(x, y)
         IN  <<m>> \o SortedPaths(S \ {m})

\* s.split(sep) for a one-character sep
RECURSIVE SplitFrom(_, _, _)
SplitFrom(s, sep, cur) ==
    IF s = <<>> THEN <<cur>>
    ELSE IF Head(s) = sep THEN <<cur>> \o SplitFrom(Tail(s), sep, <<>>)
    ELSE SplitFrom(Tail(s), sep, Append(cur, Head(s)))

Split(s, sep) == SplitFrom(s, sep, <<>>)

\* str(path) of a path given by its parts; Path("") prints as ".", and the
\* first part of an absolute path is "/"
PathStr(parts) ==
    IF parts = <<>> THEN <<".">>
    ELSE IF Head(parts) = <<"/">> THEN <<"/">> \o Join(<<"/">>, Tail(parts))
    ELSE Join(<<"/">>, parts)
\* path.name
PathName(parts) == IF parts = <<>> THEN <<>> ELSE parts[Len(parts)]

\* fnmatch of one path component: * any run of characters, ? any one character
RECURSIVE FnMatch(_, _)
FnMatch(pat, name) ==
    IF pat = <<>> THEN name = <<>>
    ELSE IF Head(pat) = "*"
         THEN \E k \in 0..Len(name) : FnMatch(Tail(pat), SubSeq(name, k + 1, Len(name)))
    ELSE IF name = <<>> THEN FALSE
    ELSE IF Head(pat) = "?" THEN FnMatch(Tail(pat), Tail(name))
    ELSE Head(pat) = Head(name) /\ FnMatch(Tail(pat), Tail(name))

\* re.sub(r"[^a-zA-Z0-9-]", "-", name)
SubNonAlnum(name) ==
    [i \in 1..Len(name) |->
        IF IsIn(name[i], UpperChars) \/ IsIn(name[i], LowerChars)
           \/ IsIn(name[i], DigitChars) \/ name[i] = "-"
        THEN name[i] ELSE "-"]

\* a slip that takes one hyphen from each end
StripOneHyphen(s) ==
    LET t == IF s # <<>> /\ Head(s) = "-" THEN Tail(s) ELSE s
    IN  IF t # <<>> /\ t[Len(t)] = "-" THEN SubSeq(t, 1, Len(t) - 1) ELSE t

\* s.strip("-")
RECURSIVE StripHyphens(_)
StripHyphens(s) ==
    IF s = <<>> THEN s
    ELSE IF Head(s) = "-" THEN StripHyphens(Tail(s))
    ELSE IF s[Len(s)] = "-" THEN StripHyphens(SubSeq(s, 1, Len(s) - 1))
    ELSE s

\* s.lower()
LowerStr(s) ==
    [i \in 1..Len(s) |->
        IF IsIn(s[i], UpperChars) THEN LowerChars[IndexIn(s[i], UpperChars)] ELSE s[i]]

\* a slip that strips the hyphens before it puts hyphens in
normalize_name_strip_first(name) == LowerStr(SubNonAlnum(StripHyphens(name)))

\* _normalize_name
normalize_name(name) == LowerStr(StripHyphens(SubNonAlnum(name)))

-----------------------------------------------------------------------------
(* the string literals of src/src/appset.py *)

S_path == <<"p", "a", "t", "h">>
S_path_path == <<"p", "a", "t", "h", ".", "p", "a", "t", "h">>
S_path_basename == <<"p", "a", "t", "h", ".", "b", "a", "s", "e", "n", "a", "m", "e">>
S_path_basenameNormalized == <<"p", "a", "t", "h", ".", "b", "a", "s", "e", "n", "a", "m", "e", "N", "o", "r", "m", "a", "l", "i", "z", "e", "d">>
S_path_segments == <<"p", "a", "t", "h", ".", "s", "e", "g", "m", "e", "n", "t", "s", ".">>
S_path_filename == <<"p", "a", "t", "h", ".", "f", "i", "l", "e", "n", "a", "m", "e">>
S_path_filenameNormalized == <<"p", "a", "t", "h", ".", "f", "i", "l", "e", "n", "a", "m", "e", "N", "o", "r", "m", "a", "l", "i", "z", "e", "d">>
S_values == <<"v", "a", "l", "u", "e", "s", ".">>
S_name == <<"n", "a", "m", "e">>
S_server == <<"s", "e", "r", "v", "e", "r">>
S_in_cluster == <<"i", "n", "-", "c", "l", "u", "s", "t", "e", "r">>
S_cluster_url == <<"h", "t", "t", "p", "s", ":", "/", "/", "k", "u", "b", "e", "r", "n", "e", "t", "e", "s", ".", "d", "e", "f", "a", "u", "l", "t", ".", "s", "v", "c">>
S_apiVersion == <<"a", "p", "i", "V", "e", "r", "s", "i", "o", "n">>
S_kind == <<"k", "i", "n", "d">>
S_metadata == <<"m", "e", "t", "a", "d", "a", "t", "a">>
S_spec == <<"s", "p", "e", "c">>
S_argoproj == <<"a", "r", "g", "o", "p", "r", "o", "j", ".", "i", "o", "/", "v", "1", "a", "l", "p", "h", "a", "1">>
S_Application == <<"A", "p", "p", "l", "i", "c", "a", "t", "i", "o", "n">>

-----------------------------------------------------------------------------
(* the collaborators: the repository resolver and the filesystem *)

\* A base path is <<normalized URL, revision>> for a clone and Workspace for the
\* workspace; the directory "/" is the base RootBase.
Workspace == << <<"workspace">>, <<>> >>
RootBase == << <<"/">>, <<>> >>

\* " \t\n".strip() for the strings of the model, whose only blank is " "
RECURSIVE StripBlanks(_)
StripBlanks(s) ==
    IF s = <<>> THEN s
    ELSE IF Head(s) = " " THEN StripBlanks(Tail(s))
    ELSE IF s[Len(s)] = " " THEN StripBlanks(SubSeq(s, 1, Len(s) - 1))
    ELSE s

\* s.rstrip("/")
RECURSIVE RStripSlashes(_)
RStripSlashes(s) ==
    IF s # <<>> /\ s[Len(s)] = "/" THEN RStripSlashes(SubSeq(s, 1, Len(s) - 1)) ELSE s

StartsWith(s, prefix) == Len(s) >= Len(prefix) /\ SubSeq(s, 1, Len(prefix)) = prefix
EndsWith(s, suffix) ==
    Len(s) >= Len(suffix) /\ SubSeq(s, Len(s) - Len(suffix) + 1, Len(s)) = suffix
DropPrefix(s, prefix) == SubSeq(s, Len(prefix) + 1, Len(s))

S_dot_git == <<".", "g", "i", "t">>

\* re.sub(r"\.git$", "", s), and the (.*?)(?:\.git)?$ of the SSH pattern: one
\* ".git" at the end is taken off
DropDotGit(s) == IF EndsWith(s, S_dot_git) THEN SubSeq(s, 1, Len(s) - 4) ELSE s

\* re.sub(r"^(https?|git)://", "", s)
DropProtocol(s) ==
    IF StartsWith(s, <<"h", "t", "t", "p", "s", ":", "/", "/">>) THEN DropPrefix(s, <<"h", "t", "t", "p", "s", ":", "/", "/">>)
    ELSE IF StartsWith(s, <<"h", "t", "t", "p", ":", "/", "/">>) THEN DropPrefix(s, <<"h", "t", "t", "p", ":", "/", "/">>)
    ELSE IF StartsWith(s, <<"g", "i", "t", ":", "/", "/">>) THEN DropPrefix(s, <<"g", "i", "t", ":", "/", "/">>)
    ELSE s

\* [\w.-]
IsNameChar(c) ==
    IsIn(c, UpperChars) \/ IsIn(c, LowerChars) \/ IsIn(c, DigitChars) \/ c \in {"_", ".", "-"}

\* the first place of c in s from place `from` on, 0 when there is none
FirstAt(s, c, from) ==
    IF \E i \in from..Len(s) : s[i] = c
    THEN CHOOSE i \in from..Len(s) : s[i] = c /\ \A j \in from..(i - 1) : s[j] # c
    ELSE 0

\* re.match(r"^[\w.-]+@([\w.-]+):(.*?)(?:\.git)?$", url): the places of the
\* "@" and the ":" when the pattern matches, <<0, 0>> when it does not
SshMatch(url) ==
    LET at == FirstAt(url, "@", 1)
        colon == IF at = 0 THEN 0 ELSE FirstAt(url, ":", at + 1)
    IN  IF /\ at > 1 /\ \A i \in 1..(at - 1) : IsNameChar(url[i])
           /\ colon > at + 1 /\ \A i \in (at + 1)..(colon - 1) : IsNameChar(url[i])
        THEN <<at, colon>> ELSE <<0, 0>>

\* _normalize_repo_url
normalize_repo_url(repo_url) ==
    LET url == StripBlanks(repo_url)
        ssh_match == SshMatch(url)
    IN  IF ssh_match # <<0, 0>>
        THEN SubSeq(url, ssh_match[1] + 1, ssh_match[2] - 1) \o <<"/">>
             \o DropDotGit(SubSeq(url, ssh_match[2] + 1, Len(url)))
        ELSE RStripSlashes(DropDotGit(DropProtocol(url)))

\* re.sub(r"[^\w.-]", "_", s)
SafeName(s) == [i \in 1..Len(s) |-> IF IsNameChar(s[i]) THEN s[i] ELSE "_"]

\* The resolver rs is
\*   local_key  RepoResolver._local_key: the normalized URL of the workspace's
\*              own repository
\*   fails      the repositories whose `git clone` fails, by normalized URL
\*   badrevs    the <<normalized URL, revision>> whose revision is no branch of
\*              the repository and cannot be checked out either
\*   cache      RepoResolver._cache: cache key -> path
\*   clones     the directories below RepoResolver._tmp_root: the name of the
\*              directory -> the <<normalized URL, revision>> whose tree it
\*              holds
\*   cloned     the calls of _clone so far, each <<repo_url, revision>>
\* URLs and revisions are strings, a revision None the empty string. A path
\* returned for a clone is the <<normalized URL, revision>> whose tree the
\* directory holds.

\* f"{key}@{revision or 'HEAD'}"
CacheKey(key, revision) == key \o <<"@">> \o (IF revision = <<>> THEN <<"H", "E", "A", "D">> ELSE revision)

\* clone_dir.name: safe_name
CloneDir(repo_url, revision) ==
    SafeName(normalize_repo_url(repo_url))
        \o (IF revision # <<>> THEN <<"_", "_">> \o SafeName(revision) ELSE <<>>)

\* RepoResolver._clone and _clone_full: [raised, path, rs]. A directory that
\* exists is returned as it is; a failed `git clone` leaves nothing; a failed
\* `git checkout` raises and leaves the full clone at its default branch.
Clone(rs, repo_url, revision) ==
    LET clone_dir == CloneDir(repo_url, revision)
        key == normalize_repo_url(repo_url)
        called == [rs EXCEPT !.cloned = Append(@, <<repo_url, revision>>)]
    IN  IF clone_dir \in DOMAIN rs.clones
        THEN [raised |-> FALSE, path |-> rs.clones[clone_dir], rs |-> called]
        ELSE IF key \in rs.fails
        THEN [raised |-> TRUE, path |-> Unused, rs |-> called]
        ELSE IF revision # <<>> /\ <<key, revision>> \in rs.badrevs
        THEN [raised |-> TRUE, path |-> Unused,
              rs |-> [called EXCEPT !.clones = (clone_dir :> <<key, <<>>>>) @@ @]]
        ELSE [raised |-> FALSE, path |-> <<key, revision>>,
              rs |-> [called EXCEPT !.clones = (clone_dir :> <<key, revision>>) @@ @]]

\* self._cache[cache_key] = clone_path; return clone_path
Cached(cache_key, clone_path) ==
    IF clone_path.raised THEN clone_path
    ELSE [raised |-> FALSE, path |-> clone_path.path,
          rs |-> [clone_path.rs EXCEPT !.cache = (cache_key :> clone_path.path) @@ @]]

\* RepoResolver.resolve(repo_url, revision): [raised, path, rs], rs the
\* resolver afterwards
Resolve(rs, repo_url, revision) ==
    LET key == normalize_repo_url(repo_url)
        cache_key == CacheKey(key, revision)
    IN  IF repo_url = <<>> THEN [raised |-> FALSE, path |-> Workspace, rs |-> rs]
        ELSE IF key = rs.local_key THEN [raised |-> FALSE, path |-> Workspace, rs |-> rs]
        ELSE IF cache_key \in DOMAIN rs.cache
        THEN [raised |-> FALSE, path |-> rs.cache[cache_key], rs |-> rs]
        ELSE Cached(cache_key, Clone(rs, repo_url, revision))

\* The tree below a base path is [dirs, files]: dirs the set of its
\* directories, each the sequence of its parts (the base itself is a
\* directory), files a function from the parts of a file to what reading and
\* parsing the file gives (see FileData).
DirsOf(tree, base_path) == IF base_path \in DOMAIN tree THEN tree[base_path].dirs ELSE {}
FilesOf(tree, base_path) == IF base_path \in DOMAIN tree THEN tree[base_path].files ELSE <<>>
IsDir(tree, base_path, parts) == parts = <<>> \/ parts \in DirsOf(tree, base_path)

\* base_path.glob(pattern) kept to the directories, relative to base_path, for
\* a relative pattern whose components use only literal characters, * and ?
GlobDirs(tree, base_path, pattern) ==
    LET pat == Split(pattern, "/")
    IN  {d \in DirsOf(tree, base_path) :
            Len(d) = Len(pat) /\ \A i \in 1..Len(pat) : FnMatch(pat[i], d[i])}

\* base_path.glob(pattern) kept to the files, relative to base_path, for a
\* relative pattern of the same kind
GlobFiles(tree, base_path, pattern) ==
    LET pat == Split(pattern, "/")
    IN  {f \in DOMAIN FilesOf(tree, base_path) :
            Len(f) = Len(pat) /\ \A i \in 1..Len(pat) : FnMatch(pat[i], f[i])}

\* Path(pattern).parts for a relative pattern: empty and "." components drop out
RECURSIVE DropEmpty(_)
DropEmpty(parts) ==
    IF parts = <<>> THEN <<>>
    ELSE (IF Head(parts) = <<>> \/ Head(parts) = <<".">> THEN <<>> ELSE <<Head(parts)>>)
         \o DropEmpty(Tail(parts))

PathParts(pattern) ==
    IF pattern # <<>> /\ Head(pattern) = "/"
    THEN << <<"/">> >> \o DropEmpty(Split(pattern, "/"))
    ELSE DropEmpty(Split(pattern, "/"))

HasGlobChar(pattern) == \E i \in 1..Len(pattern) : pattern[i] \in {"*", "?", "[", "]"}

-----------------------------------------------------------------------------
(* src/src/appset.py: the leaf generators *)

\* the loop of _expand_list_generator: non-dict elements are skipped
RECURSIVE ListLoop(_)
ListLoop(elements) ==
    IF elements = <<>> THEN <<>>
    ELSE (IF Head(elements).t = "dict"
          THEN <<flatten_dict(Head(elements).items, <<>>)>> ELSE <<>>)
         \o ListLoop(Tail(elements))

expand_list_generator(cfg) == ListLoop(Get(cfg, "elements", <<>>))

expand_clusters_generator(cfg) ==
    << << <<S_name, StrV(S_in_cluster)>>, <<S_server, StrV(S_cluster_url)>> >> >>

find_matching_directories(tree, pattern, base_path) ==
    IF pattern # <<>> /\ pattern[Len(pattern)] = "*"
    THEN GlobDirs(tree, base_path, pattern)
    ELSE IF pattern # <<>> /\ Head(pattern) = "/"
    THEN (IF IsDir(tree, RootBase, Tail(PathParts(pattern)))
          THEN {PathParts(pattern)} ELSE {})
    ELSE IF HasGlobChar(pattern) THEN GlobDirs(tree, base_path, pattern)
    ELSE IF IsDir(tree, base_path, PathParts(pattern)) THEN {PathParts(pattern)}
    ELSE {}

\* a slip that writes the keys under the prefix only
DirectoryParamsPrefixedOnly(dir_path, prefix) ==
    LET path_str == PathStr(dir_path)
        basename == PathName(dir_path)
        segments == Split(path_str, "/")
    IN  DictUpdate(<< <<prefix \o S_path, StrV(path_str)>>,
                      <<prefix \o S_path_path, StrV(path_str)>>,
                      <<prefix \o S_path_basename, StrV(basename)>>,
                      <<prefix \o S_path_basenameNormalized, StrV(normalize_name(basename))>> >>,
                   [i \in 1..Len(segments) |->
                       <<prefix \o S_path_segments \o Digits(i - 1), StrV(segments[i])>>])

\* the parameter set of one matched directory
DirectoryParams(dir_path, prefix) ==
    LET path_str == PathStr(dir_path)
        basename == PathName(dir_path)
        basename_normalized == normalize_name(basename)
        segments == Split(path_str, "/")
        p == DictUpdate(<<>>, <<
                <<prefix \o S_path, StrV(path_str)>>,
                <<prefix \o S_path_path, StrV(path_str)>>,
                <<prefix \o S_path_basename, StrV(basename)>>,
                <<prefix \o S_path_basenameNormalized, StrV(basename_normalized)>>,
                <<S_path, StrV(path_str)>>,
                <<S_path_path, StrV(path_str)>>,
                <<S_path_basename, StrV(basename)>>,
                <<S_path_basenameNormalized, StrV(basename_normalized)>> >>)
        segs == Flat([i \in 1..Len(segments) |-> <<
                <<prefix \o S_path_segments \o Digits(i - 1), StrV(segments[i])>>,
                <<S_path_segments \o Digits(i - 1), StrV(segments[i])>> >>])
    IN  DictUpdate(p, segs)

\* a slip that applies the entries in their order: an exclude entry removes
\* only what the entries before it had matched
RECURSIVE DirsInOrder(_, _, _, _)
DirsInOrder(tree, directories, base_path, matched) ==
    IF directories = <<>> THEN matched
    ELSE LET found == find_matching_directories(tree, Get(Head(directories), "path", <<>>),
                                                base_path)
         IN  DirsInOrder(tree, Tail(directories), base_path,
                         IF Get(Head(directories), "exclude", FALSE)
                         THEN matched \ found ELSE matched \cup found)

expand_git_directory_generator_in_order(tree, cfg, base_path, path_param_prefix) ==
    LET matched_dirs == SortedPaths(DirsInOrder(tree, Get(cfg, "directories", <<>>),
                                                base_path, {}))
        prefix == IF path_param_prefix # <<>> THEN path_param_prefix \o <<".">> ELSE <<>>
    IN  [i \in 1..Len(matched_dirs) |-> DirectoryParams(matched_dirs[i], prefix)]

expand_git_directory_generator(tree, cfg, base_path, path_param_prefix) ==
    LET directories == Get(cfg, "directories", <<>>)
        Excluded(i) == Get(directories[i], "exclude", FALSE)
        Pattern(i) == Get(directories[i], "path", <<>>)
        included == UNION {find_matching_directories(tree, Pattern(i), base_path) :
                              i \in {j \in 1..Len(directories) : ~Excluded(j)}}
        excluded == UNION {find_matching_directories(tree, Pattern(i), base_path) :
                              i \in {j \in 1..Len(directories) : Excluded(j)}}
        matched_dirs == SortedPaths(included \ excluded)
        prefix == IF path_param_prefix # <<>> THEN path_param_prefix \o <<".">> ELSE <<>>
    IN  [i \in 1..Len(matched_dirs) |-> DirectoryParams(matched_dirs[i], prefix)]

\* _find_matching_files: the matched files in sorted order. The code holds
\* them as paths below base_path and takes relative_to(base_path) later; the
\* model holds the relative paths, which sort the same way.
find_matching_files(tree, pattern, base_path) ==
    SortedPaths(GlobFiles(tree, base_path, pattern))

\* The try block of _expand_git_file_generator and the test after it, for a
\* file c = [read, yaml, json]: read is "ok", "OSError" (read_text cannot
\* open or read the file) or "UnicodeDecodeError" (read_text cannot decode
\* its bytes; a ValueError, which the except clause does not name); yaml and
\* json are what yaml.safe_load and json.loads make of the text, each
\* [raised, value]. The outcome is "raise", "skip" or "data".
FileData(c) ==
    IF c.read = "UnicodeDecodeError" THEN [kind |-> "raise", data |-> NoneV]
    ELSE IF c.read = "OSError" THEN [kind |-> "skip", data |-> NoneV]
    ELSE IF c.yaml.raised THEN [kind |-> "skip", data |-> NoneV]
    ELSE IF c.yaml.value.t = "dict" THEN [kind |-> "data", data |-> c.yaml.value]
    ELSE IF c.json.raised THEN [kind |-> "skip", data |-> NoneV]
    ELSE IF c.json.value.t = "dict" THEN [kind |-> "data", data |-> c.json.value]
    ELSE [kind |-> "skip", data |-> NoneV]

\* path.parent
PathParent(parts) == IF parts = <<>> THEN <<>> ELSE SubSeq(parts, 1, Len(parts) - 1)

\* the parameter set of one file: its flattened contents, then the path
\* parameters laid over them
FileParams(data, rel_path, prefix) ==
    LET path_str == PathStr(rel_path)
        parent == PathParent(rel_path)
    IN  DictUpdate(flatten_dict(data.items, <<>>), <<
            <<prefix \o S_path, StrV(path_str)>>,
            <<prefix \o S_path_path, StrV(PathStr(parent))>>,
            <<prefix \o S_path_basename, StrV(PathName(parent))>>,
            <<prefix \o S_path_basenameNormalized, StrV(normalize_name(PathName(parent)))>>,
            <<prefix \o S_path_filename, StrV(PathName(rel_path))>>,
            <<prefix \o S_path_filenameNormalized, StrV(normalize_name(PathName(rel_path)))>>,
            <<S_path, StrV(path_str)>>,
            <<S_path_path, StrV(PathStr(parent))>>,
            <<S_path_basename, StrV(PathName(parent))>>,
            <<S_path_basenameNormalized, StrV(normalize_name(PathName(parent)))>>,
            <<S_path_filename, StrV(PathName(rel_path))>>,
            <<S_path_filenameNormalized, StrV(normalize_name(PathName(rel_path)))>> >>)

\* the inner loop of _expand_git_file_generator over the files of one entry:
\* an exception leaves the loop and the parameter sets built so far are lost
RECURSIVE FileLoop(_, _, _, _)
FileLoop(tree, matched_files, base_path, prefix) ==
    IF matched_files = <<>> THEN [raised |-> FALSE, params |-> <<>>]
    ELSE LET file_path == Head(matched_files)
             d == FileData(FilesOf(tree, base_path)[file_path])
             rest == FileLoop(tree, Tail(matched_files), base_path, prefix)
         IN  IF d.kind = "raise" THEN [raised |-> TRUE, params |-> <<>>]
             ELSE IF rest.raised THEN rest
             ELSE [raised |-> FALSE,
                   params |-> (IF d.kind = "data"
                               THEN <<FileParams(d.data, file_path, prefix)>> ELSE <<>>)
                              \o rest.params]

\* a slip that globs the entries with exclude: true as well
EntryFilesIgnoringExclude(tree, file_entry, base_path) ==
    find_matching_files(tree, Get(file_entry, "path", <<>>), base_path)

\* the files one entry of files_config contributes: none for exclude: true
EntryFiles(tree, file_entry, base_path) ==
    IF Get(file_entry, "exclude", FALSE) THEN <<>>
    ELSE find_matching_files(tree, Get(file_entry, "path", <<>>), base_path)

\* the outer loop of _expand_git_file_generator
RECURSIVE EntryLoop(_, _, _, _)
EntryLoop(tree, files_config, base_path, prefix) ==
    IF files_config = <<>> THEN [raised |-> FALSE, params |-> <<>>]
    ELSE LET first == FileLoop(tree, EntryFiles(tree, Head(files_config), base_path),
                               base_path, prefix)
             rest == EntryLoop(tree, Tail(files_config), base_path, prefix)
         IN  IF first.raised THEN first
             ELSE IF rest.raised THEN rest
             ELSE [raised |-> FALSE, params |-> first.params \o rest.params]

expand_git_file_generator(tree, cfg, base_path, path_param_prefix) ==
    EntryLoop(tree, Get(cfg, "files", <<>>), base_path,
              IF path_param_prefix # <<>> THEN path_param_prefix \o <<".">> ELSE <<>>)

\* what the file generator returned or raised, with the resolver as it is now
Raising(files, rs) == [raised |-> files.raised, params |-> files.params, rs |-> rs]

\* _expand_git_generator once the repository is resolved
GitOf(tree, cfg, base_path, path_param_prefix) ==
    IF base_path.raised THEN [raised |-> TRUE, params |-> <<>>, rs |-> base_path.rs]
    ELSE IF Has(cfg, "directories")
    THEN [raised |-> FALSE,
          params |-> expand_git_directory_generator(tree, cfg, base_path.path,
                                                    path_param_prefix),
          rs |-> base_path.rs]
    ELSE IF Has(cfg, "files")
    THEN Raising(expand_git_file_generator(tree, cfg, base_path.path, path_param_prefix),
                 base_path.rs)
    ELSE [raised |-> FALSE, params |-> <<>>, rs |-> base_path.rs]

\* _expand_git_generator: the resolver's failure and the file generator's are
\* raised to the caller
expand_git_generator(rs, tree, cfg) ==
    LET repo_url == Get(cfg, "repoURL", <<>>)
        revision == IF Get(cfg, "revision", <<>>) # <<>> THEN cfg.revision
                    ELSE Get(cfg, "targetRevision", <<>>)
    IN  GitOf(tree, cfg, Resolve(rs, repo_url, revision), Get(cfg, "pathParamPrefix", <<>>))

-----------------------------------------------------------------------------
(* src/src/appset.py: the combinators and the dispatcher *)

\* itertools.product(*lists): the first list varies slowest
RECURSIVE Product(_)
Product(lists) ==
    IF lists = <<>> THEN << <<>> >>
    ELSE LET rest == Product(Tail(lists))
         IN  Flat([i \in 1..Len(Head(lists)) |->
                      [j \in 1..Len(rest) |-> <<Head(lists)[i]>> \o rest[j]]])

\* a slip that keeps the first value of a key instead of the last
RECURSIVE MergeComboFirstWins(_, _)
MergeComboFirstWins(merged, combo) ==
    IF combo = <<>> THEN merged
    ELSE MergeComboFirstWins(DictUpdate(Head(combo), merged), Tail(combo))

\* merged = {}; for params in combo: merged.update(params)
RECURSIVE MergeCombo(_, _)
MergeCombo(merged, combo) ==
    IF combo = <<>> THEN merged
    ELSE MergeCombo(DictUpdate(merged, Head(combo)), Tail(combo))

MatrixResult(child_params) ==
    LET combos == Product(child_params)
    IN  [i \in 1..Len(combos) |-> MergeCombo(<<>>, combos[i])]

\* result_map seeded with the first child's parameter sets
RECURSIVE MergeSeed(_, _, _)
MergeSeed(result_map, first, merge_keys) ==
    IF first = <<>> THEN result_map
    ELSE MergeSeed(DictSet(result_map, make_merge_key(Head(first), merge_keys), Head(first)),
                   Tail(first), merge_keys)

\* a slip that adds an entry for a later parameter set whose key is new
RECURSIVE MergeOverlayAdding(_, _, _)
MergeOverlayAdding(result_map, later, merge_keys) ==
    IF later = <<>> THEN result_map
    ELSE LET key == make_merge_key(Head(later), merge_keys)
             next == DictSet(result_map, key,
                             DictUpdate(DictGet(result_map, key, <<>>), Head(later)))
         IN  MergeOverlayAdding(next, Tail(later), merge_keys)

\* the later children's parameter sets, in order, overlaid where the key exists
RECURSIVE MergeOverlay(_, _, _)
MergeOverlay(result_map, later, merge_keys) ==
    IF later = <<>> THEN result_map
    ELSE LET key == make_merge_key(Head(later), merge_keys)
             next == IF DictHas(result_map, key)
                     THEN DictSet(result_map, key,
                                  DictUpdate(DictGet(result_map, key, Unused), Head(later)))
                     ELSE result_map
         IN  MergeOverlay(next, Tail(later), merge_keys)

MergeResult(all_expanded, merge_keys) ==
    DictValues(MergeOverlay(MergeSeed(<<>>, all_expanded[1], merge_keys),
                            Flat(Tail(all_expanded)), merge_keys))

\* a slip that leaves a key the generator produced as it is
AddValuesKeepingProduced(p, extra_values) ==
    DictUpdate([j \in 1..Len(extra_values) |->
                   <<S_values \o extra_values[j][1], extra_values[j][2]>>], p)

\* for k, v in extra_values.items(): p["values." + k] = v
AddValues(p, extra_values) ==
    DictUpdate(p, [j \in 1..Len(extra_values) |->
                      <<S_values \o extra_values[j][1], extra_values[j][2]>>])

\* An expansion is [raised |-> whether an error came out of it,
\* params |-> the parameter sets returned otherwise, rs |-> the resolver
\* afterwards].
RECURSIVE expand_generator(_, _, _)
RECURSIVE expand_matrix_generator(_, _, _)
RECURSIVE expand_merge_generator(_, _, _)

\* one more child's list in front of the lists of the children after it
PrependList(list, rest) ==
    IF rest.raised THEN rest
    ELSE [raised |-> FALSE, lists |-> <<list>> \o rest.lists, rs |-> rest.rs]

\* a slip that catches a child's error, logs it and goes on with no result
RECURSIVE ExpandChildrenSwallowing(_, _, _)
RECURSIVE AfterChildSwallowing(_, _, _)
AfterChildSwallowing(tree, later_generators, expanded) ==
    PrependList(expanded.params, ExpandChildrenSwallowing(expanded.rs, tree, later_generators))

ExpandChildrenSwallowing(rs, tree, child_generators) ==
    IF child_generators = <<>> THEN [raised |-> FALSE, lists |-> <<>>, rs |-> rs]
    ELSE AfterChildSwallowing(tree, Tail(child_generators),
                              expand_generator(rs, tree, Head(child_generators)))

\* for child in child_generators: expanded = _expand_generator(child, ...),
\* one child after the other; an error ends the loop
RECURSIVE ExpandChildren(_, _, _)
RECURSIVE AfterChild(_, _, _)
AfterChild(tree, later_generators, expanded) ==
    IF expanded.raised THEN [raised |-> TRUE, lists |-> <<>>, rs |-> expanded.rs]
    ELSE PrependList(expanded.params, ExpandChildren(expanded.rs, tree, later_generators))

ExpandChildren(rs, tree, child_generators) ==
    IF child_generators = <<>> THEN [raised |-> FALSE, lists |-> <<>>, rs |-> rs]
    ELSE AfterChild(tree, Tail(child_generators),
                    expand_generator(rs, tree, Head(child_generators)))

\* the product of the children's lists, or the error that ended their loop
MatrixOf(children) ==
    IF children.raised THEN [raised |-> TRUE, params |-> <<>>, rs |-> children.rs]
    ELSE [raised |-> FALSE, params |-> MatrixResult(children.lists), rs |-> children.rs]

\* a slip that lets a matrix generator of a single child through
expand_matrix_generator_min1(rs, tree, cfg) ==
    LET child_generators == Get(cfg, "generators", <<>>)
    IN  IF Len(child_generators) < 1 THEN [raised |-> FALSE, params |-> <<>>, rs |-> rs]
        ELSE MatrixOf(ExpandChildren(rs, tree, child_generators))

expand_matrix_generator(rs, tree, cfg) ==
    LET child_generators == Get(cfg, "generators", <<>>)
    IN  IF Len(child_generators) < 2 THEN [raised |-> FALSE, params |-> <<>>, rs |-> rs]
        ELSE MatrixOf(ExpandChildren(rs, tree, child_generators))

\* the merge of the children's lists, or the error that ended their loop
MergeOf(children, merge_keys) ==
    IF children.raised THEN [raised |-> TRUE, params |-> <<>>, rs |-> children.rs]
    ELSE [raised |-> FALSE, params |-> MergeResult(children.lists, merge_keys),
          rs |-> children.rs]

expand_merge_generator(rs, tree, cfg) ==
    LET merge_keys == Get(cfg, "mergeKeys", <<>>)
        child_generators == Get(cfg, "generators", <<>>)
    IN  IF child_generators = <<>> THEN [raised |-> FALSE, params |-> <<>>, rs |-> rs]
        ELSE MergeOf(ExpandChildren(rs, tree, child_generators), merge_keys)

\* a slip that looks for git before list
VariantGitFirst(g) ==
    IF Has(g, "git") THEN "git"
    ELSE IF Has(g, "list") THEN "list"
    ELSE IF Has(g, "clusters") THEN "clusters"
    ELSE IF Has(g, "matrix") THEN "matrix"
    ELSE IF Has(g, "merge") THEN "merge"
    ELSE "unsupported"

\* the variant the dispatcher routes to
Variant(g) ==
    IF Has(g, "list") THEN "list"
    ELSE IF Has(g, "git") THEN "git"
    ELSE IF Has(g, "clusters") THEN "clusters"
    ELSE IF Has(g, "matrix") THEN "matrix"
    ELSE IF Has(g, "merge") THEN "merge"
    ELSE "unsupported"

\* `if selector:`: the key is there and its mapping is not empty
SelectorGiven(g) == Has(g, "selector") /\ DOMAIN g.selector # {}

\* the if/elif chain of _expand_generator: what the variant's generator makes
Produced(rs, tree, g) ==
    LET variant == Variant(g)
    IN  IF variant = "list"
        THEN [raised |-> FALSE, params |-> expand_list_generator(g.list), rs |-> rs]
        ELSE IF variant = "git" THEN expand_git_generator(rs, tree, g.git)
        ELSE IF variant = "clusters"
        THEN [raised |-> FALSE, params |-> expand_clusters_generator(g.clusters), rs |-> rs]
        ELSE IF variant = "matrix" THEN expand_matrix_generator(rs, tree, g.matrix)
        ELSE expand_merge_generator(rs, tree, g.merge)

\* the generator-level values added to every produced parameter set
WithValues(params_list, extra_values) ==
    IF extra_values # <<>>
    THEN [i \in 1..Len(params_list) |-> AddValues(params_list[i], extra_values)]
    ELSE params_list

\* the selector applied last
Selected(params_list, g) ==
    IF SelectorGiven(g) THEN apply_selector(params_list, g.selector) ELSE params_list

\* a slip that applies the selector before the values are added
SelectorThenValues(g, produced) ==
    IF produced.raised THEN [raised |-> TRUE, params |-> <<>>, rs |-> produced.rs]
    ELSE [raised |-> FALSE,
          params |-> WithValues(Selected(produced.params, g), Get(g, "values", <<>>)),
          rs |-> produced.rs]

\* the values and the selector laid over what the variant's generator made
ValuesAndSelector(g, produced) ==
    IF produced.raised THEN [raised |-> TRUE, params |-> <<>>, rs |-> produced.rs]
    ELSE [raised |-> FALSE,
          params |-> Selected(WithValues(produced.params, Get(g, "values", <<>>)), g),
          rs |-> produced.rs]

expand_generator(rs, tree, g) ==
    IF Variant(g) = "unsupported" THEN [raised |-> FALSE, params |-> <<>>, rs |-> rs]
    ELSE ValuesAndSelector(g, Produced(rs, tree, g))

\* what the caller of an expansion gets: the error or the parameter sets
Returned(r) == [raised |-> r.raised, params |-> r.params]

\* a slip that spreads the template under the markers whatever its fields
EnvelopeSpread(app_dict) ==
    DictV(DictUpdate(<< <<S_apiVersion, StrV(S_argoproj)>>,
                        <<S_kind, StrV(S_Application)>> >>, app_dict.items))

\* a slip that leaves out the branch of the template with neither field
EnvelopeNoSpread(app_dict) ==
    DictV(<< <<S_apiVersion, StrV(S_argoproj)>>,
             <<S_kind, StrV(S_Application)>>,
             <<S_metadata, DictGet(app_dict.items, S_metadata, DictV(<<>>))>>,
             <<S_spec, DictGet(app_dict.items, S_spec, app_dict)>> >>)

\* the document expand_application_set builds from one substituted template
Envelope(app_dict) ==
    LET d == app_dict.items
        full_dict == <<
            <<S_apiVersion, StrV(S_argoproj)>>,
            <<S_kind, StrV(S_Application)>>,
            <<S_metadata, DictGet(d, S_metadata, DictV(<<>>))>>,
            <<S_spec, DictGet(d, S_spec, app_dict)>> >>
    IN  IF ~DictHas(d, S_metadata) /\ ~DictHas(d, S_spec)
        THEN DictV(DictUpdate(<< <<S_apiVersion, StrV(S_argoproj)>>,
                                 <<S_kind, StrV(S_Application)>> >>, d))
        ELSE DictV(full_dict)

-----------------------------------------------------------------------------
(* SpecSubst: substitute_params_deep applied to bounded templates *)

\* the longest template string
MaxTextLen == 6

SubstChars == {"{", "}", "a"}

\* every string over SubstChars of at most n characters
RECURSIVE TextsUpTo(_)
TextsUpTo(n) ==
    IF n = 0 THEN {<<>>}
    ELSE LET shorter == TextsUpTo(n - 1)
         IN  shorter \cup {Append(t, c) : t \in {u \in shorter : Len(u) = n - 1},
                                          c \in SubstChars}

\* the template shapes a text is placed in: a bare string, and a map holding
\* the string and a sequence of a number and the string "{{a}}{{b}}"
TemplateShapes(text) ==
    { StrV(text),
      DictV(<< <<<<"k">>, StrV(text)>>,
               <<<<"l">>, ListV(<<IntV(1), StrV(Token(<<"a">>) \o Token(<<"b">>))>>)>> >>) }

SubstParamPool ==
    { <<>>,
      << <<<<"a">>, StrV(<<"x">>)>> >>,
      << <<<<"a">>, IntV(10)>> >>,
      << <<<<"b">>, StrV(<<"x">>)>> >>,
      << <<<<"{", "a">>, StrV(<<"x">>)>> >>,
      << <<<<"a", "}">>, StrV(<<"x">>)>> >>,
      << <<<<"a">>, StrV(<<"{", "{", "a">>)>>, <<<<"a", "a">>, StrV(<<>>)>> >>,
      << <<<<"a">>, StrV(<<"}">>)>>, <<<<"b">>, StrV(<<"{">>)>> >>,
      << <<<<"a", "a">>, StrV(Token(<<"a">>))>>, <<<<"a">>, StrV(<<"x">>)>> >>,
      << <<<<"a">>, StrV(Token(<<"b">>))>>, <<<<"b">>, StrV(<<"x">>)>> >>,
      << <<<<"b">>, StrV(<<"x">>)>>, <<<<"a">>, StrV(Token(<<"b">>))>> >> }

InitSubst ==
    /\ pc = "call"
    /\ obj \in UNION {TemplateShapes(text) : text \in TextsUpTo(MaxTextLen)}
    /\ tparams \in SubstParamPool
    /\ heap = Unused /\ args = Unused
    /\ result = Unused
    /\ appset = Unused /\ resolver = Unused /\ fs = Unused /\ gi = 0
    /\ all_params = Unused /\ applications = Unused /\ generator = Unused
    /\ params = Unused /\ selector = Unused

\* app_dict = substitute_params_deep(obj, params)
Substitute ==
    /\ pc = "call"
    /\ result' = substitute_params_deep(obj, tparams)
    /\ pc' = "done"
    /\ UNCHANGED <<appset, resolver, fs, gi, all_params, applications, generator,
                   params, selector, obj, tparams, heap, args>>

NextSubst == Substitute

SpecSubst == InitSubst /\ [][NextSubst]_vars

\* tok occurs in text
Occurs(tok, text) ==
    \E i \in 1..(Len(text) - Len(tok) + 1) : SubSeq(text, i, i + Len(tok) - 1) = tok

BraceFree(s) == \A i \in 1..Len(s) : s[i] \notin {"{", "}"}

\* the names of the placeholders {{name}} of a text, a name holding no brace
PlaceholderNames(text) ==
    {name \in {SubSeq(text, i, j) : i \in 1..(Len(text) + 1), j \in 0..Len(text)} :
        BraceFree(name) /\ Occurs(Token(name), text)}

\* r has the structure of the template o, and each string of r still holds
\* every placeholder of its string in o whose name is no key of p
RECURSIVE UnknownKept(_, _, _)
UnknownKept(o, r, p) ==
    IF o.t = "str"
    THEN /\ r.t = "str"
         /\ \A name \in PlaceholderNames(o.s) :
               ~DictHas(p, name) => Occurs(Token(name), r.s)
    ELSE IF o.t = "dict"
    THEN /\ r.t = "dict"
         /\ Len(r.items) = Len(o.items)
         /\ \A i \in 1..Len(o.items) :
               /\ r.items[i][1] = o.items[i][1]
               /\ UnknownKept(o.items[i][2], r.items[i][2], p)
    ELSE IF o.t = "list"
    THEN /\ r.t = "list"
         /\ Len(r.xs) = Len(o.xs)
         /\ \A i \in 1..Len(o.xs) : UnknownKept(o.xs[i], r.xs[i], p)
    ELSE r = o

\* C5 as stated: for every template and every parameter set, every
\* placeholder {{name}} whose name is not a key of the parameter set appears
\* verbatim in the output of substitute_params_deep.
C5_AsStated == pc = "done" => UnknownKept(obj, result, tparams)

\* C5 amended: for every template and every parameter set none of whose keys
\* holds a brace, substitute_params_deep returns a value of the template's
\* structure in which every placeholder {{name}} (name without braces) whose
\* name is not a key of the parameter set appears verbatim.
C5_UnknownPlaceholdersKept ==
    (pc = "done" /\ \A k \in KeySet(tparams) : BraceFree(k))
        => UnknownKept(obj, result, tparams)

\* a nested template holding an unknown placeholder beside a replaced one
C5_Witness ==
    /\ pc = "done"
    /\ \A k \in KeySet(tparams) : BraceFree(k)
    /\ obj.t = "dict"
    /\ result.items[2] # obj.items[2]
    /\ \E name \in PlaceholderNames(obj.items[1][2].s) : ~DictHas(tparams, name)
    /\ \E name \in PlaceholderNames(obj.items[2][2].xs[2].s) : ~DictHas(tparams, name)

-----------------------------------------------------------------------------
(* SpecSelector: _apply_selector applied to bounded parameter sets and selectors *)

\* the longest list of parameter sets handed to _apply_selector
MaxSelParams == 2

\* every sequence over S of at most n elements
RECURSIVE SeqsUpTo(_, _)
SeqsUpTo(S, n) ==
    IF n = 0 THEN {<<>>}
    ELSE LET shorter == SeqsUpTo(S, n - 1)
         IN  shorter \cup {Append(t, x) : t \in {u \in shorter : Len(u) = n - 1}, x \in S}

SelParamPool ==
    { <<>>,
      << <<<<"e">>, StrV(<<"p">>)>> >>,
      << <<<<"e">>, StrV(<<>>)>> >>,
      << <<<<"e">>, IntV(1)>> >>,
      << <<<<"e">>, StrV(<<"1">>)>> >>,
      << <<<<"n">>, StrV(<<"p">>)>>, <<<<"e">>, StrV(<<"q">>)>> >> }

SelLabelPool ==
    { << <<<<"e">>, StrV(<<"p">>)>> >>,
      << <<<<"e">>, StrV(<<>>)>> >>,
      << <<<<"e">>, IntV(1)>> >>,
      << <<<<"n">>, StrV(<<"p">>)>>, <<<<"e">>, StrV(<<"q">>)>> >> }

SelExprPool ==
    [key : {<<"e">>, <<"n">>},
     operator : {"In", "NotIn", "Exists", "DoesNotExist"},
     values : { <<>>, <<StrV(<<"p">>)>>, <<StrV(<<>>)>>, <<IntV(1), StrV(<<"q">>)>> }]

\* a selector carries matchLabels, matchExpressions, or both
SelectorPool ==
    {[matchLabels |-> l] : l \in SelLabelPool}
    \cup {[matchExpressions |-> <<x>>] : x \in SelExprPool}
    \cup {[matchLabels |-> l, matchExpressions |-> <<x>>] : l \in SelLabelPool, x \in SelExprPool}
    \cup {[matchExpressions |-> <<x, y>>] :
             x \in {z \in SelExprPool : z.key = <<"e">> /\ z.values = <<StrV(<<"p">>)>>},
             y \in {z \in SelExprPool : z.key = <<"n">> /\ z.values = <<>>}}

InitSelector ==
    /\ pc = "call"
    /\ params \in SeqsUpTo(SelParamPool, MaxSelParams)
    /\ selector \in SelectorPool
    /\ result = Unused
    /\ appset = Unused /\ resolver = Unused /\ fs = Unused /\ gi = 0
    /\ all_params = Unused /\ applications = Unused /\ generator = Unused
    /\ obj = Unused /\ tparams = Unused
    /\ heap = Unused /\ args = Unused

\* params = _apply_selector(params, selector)
ApplySelector ==
    /\ pc = "call"
    /\ result' = apply_selector(params, selector)
    /\ pc' = "done"
    /\ UNCHANGED <<appset, resolver, fs, gi, all_params, applications, generator,
                   params, selector, obj, tparams, heap, args>>

NextSelector == ApplySelector

SpecSelector == InitSelector /\ [][NextSelector]_vars

\* the string a selector compares for key k of p: a missing key counts as ""
SelString(p, k) == IF \E i \in 1..Len(p) : p[i][1] = k THEN PyStr(DictGet(p, k, Unused)) ELSE <<>>

LabelsMatch(p, s) ==
    \A i \in 1..Len(Get(s, "matchLabels", <<>>)) :
        SelString(p, s.matchLabels[i][1]) = PyStr(s.matchLabels[i][2])

ExprMatches(p, e) ==
    LET listed == {PyStr(e.values[i]) : i \in 1..Len(e.values)}
        present == e.key \in {p[i][1] : i \in 1..Len(p)}
    IN  /\ e.operator = "In" => SelString(p, e.key) \in listed
        /\ e.operator = "NotIn" => SelString(p, e.key) \notin listed
        /\ e.operator = "Exists" => present
        /\ e.operator = "DoesNotExist" => ~present

SelKeep(p) ==
    /\ LabelsMatch(p, selector)
    /\ \A i \in 1..Len(Get(selector, "matchExpressions", <<>>)) :
          ExprMatches(p, selector.matchExpressions[i])

\* C4: _apply_selector keeps p iff every matchLabels entry string-equals p's
\* value (missing as "") and every matchExpressions entry holds (In, NotIn on
\* the string value, Exists, DoesNotExist on the presence of the key); the kept
\* parameter sets retain their input order.
C4_SelectorKeepsMatches == pc = "done" => result = SelectSeq(params, SelKeep)

\* a list of which one parameter set is kept and one is dropped, the dropped
\* one holding the empty string under a key the selector requires to be absent
C4_Witness ==
    /\ pc = "done"
    /\ Len(params) = 2 /\ Len(result) = 1
    /\ Has(selector, "matchExpressions")
    /\ selector.matchExpressions[1].operator = "DoesNotExist"
    /\ \E i \in 1..2 : /\ DictHas(params[i], selector.matchExpressions[1].key)
                       /\ SelString(params[i], selector.matchExpressions[1].key) = <<>>

-----------------------------------------------------------------------------
(* the inputs the generator specifications draw from *)

\* a repository that is not the workspace's, and a revision of it
U_ext == <<"e", "x", "t">>
R_v1 == <<"v", "1">>

\* a filesystem: two directories and a nested one in the workspace, one in a clone
FsSmall ==
    (Workspace :> [dirs |-> { <<<<"a", "1">>>>, <<<<"B", "_", "2">>>>, <<<<"B", "_", "2">>, <<"c">>>> },
                   files |-> <<>>])
    @@ (<<U_ext, <<>>>> :> [dirs |-> { <<<<"x">>>> }, files |-> <<>>])
    @@ (<<U_ext, R_v1>> :> [dirs |-> { <<<<"x">>>>, <<<<"y">>>> }, files |-> <<>>])

\* a resolver for which every clone succeeds
ResolverOk ==
    [local_key |-> <<"l", "o", "c", "a", "l">>, fails |-> {}, badrevs |-> {}, cache |-> <<>>, clones |-> <<>>,
     cloned |-> <<>>]

ListOf(elements) == [list |-> [elements |-> elements]]
Elem(items) == DictV(items)

GitDirsAll(repo_url) ==
    [git |-> [repoURL |-> repo_url, directories |-> <<[path |-> <<"*">>]>>]]

\* the children of the matrix generators: results of sizes 0, 1 and 2, with
\* shared and disjoint keys, with values and selector, from every leaf variant
MatrixChildPool ==
    { ListOf(<<>>),
      ListOf(<<Elem(<< <<S_name, StrV(<<"a">>)>> >>)>>),
      ListOf(<<Elem(<< <<S_name, StrV(<<"a">>)>>, <<<<"e", "n", "v">>, StrV(<<"p">>)>> >>),
               Elem(<< <<S_name, StrV(<<"b">>)>>, <<<<"e", "n", "v">>, StrV(<<"q">>)>> >>)>>),
      [list |-> [elements |-> <<Elem(<< <<<<"e", "n", "v">>, StrV(<<"r">>)>> >>),
                                Elem(<< <<<<"e", "n", "v">>, StrV(<<"s">>)>> >>)>>],
       values |-> << <<<<"v">>, IntV(1)>> >>],
      [list |-> [elements |-> <<Elem(<< <<S_name, StrV(<<"c">>)>>, <<<<"e", "n", "v">>, StrV(<<"p">>)>> >>),
                                Elem(<< <<S_name, StrV(<<"d">>)>> >>)>>],
       selector |-> [matchExpressions |->
                        <<[key |-> <<"e", "n", "v">>, operator |-> "Exists", values |-> <<>>]>>]],
      [clusters |-> <<>>],
      GitDirsAll(<<>>),
      ListOf(<<Elem(<< <<S_name, StrV(<<"e">>)>>,
                       <<<<"m">>, DictV(<< <<<<"x">>, IntV(1)>> >>)>> >>),
               StrV(<<"s">>)>>) }

-----------------------------------------------------------------------------
(* SpecMatrix: _expand_matrix_generator applied to bounded configurations *)

\* the largest number of children of a matrix generator
MaxMatrixChildren == 3

InitMatrix ==
    /\ pc = "call"
    /\ generator \in {[generators |-> c] : c \in SeqsUpTo(MatrixChildPool, MaxMatrixChildren)}
    /\ resolver = ResolverOk
    /\ fs = FsSmall
    /\ result = Unused
    /\ appset = Unused /\ gi = 0 /\ all_params = Unused /\ applications = Unused
    /\ params = Unused /\ selector = Unused /\ obj = Unused /\ tparams = Unused
    /\ heap = Unused /\ args = Unused

\* params = _expand_matrix_generator(generator["matrix"], resolver, go_template)
ExpandMatrix ==
    /\ pc = "call"
    /\ LET r == expand_matrix_generator(resolver, fs, generator)
       IN  result' = Returned(r) /\ resolver' = r.rs
    /\ pc' = "done"
    /\ UNCHANGED <<appset, fs, gi, all_params, applications, generator,
                   params, selector, obj, tparams, heap, args>>

NextMatrix == ExpandMatrix

SpecMatrix == InitMatrix /\ [][NextMatrix]_vars

\* the Dispatcher expansions of the children of the configuration at hand
ChildResults ==
    [i \in 1..Len(generator.generators) |->
        expand_generator(resolver, fs, generator.generators[i]).params]

RECURSIVE ProductOfSizes(_)
ProductOfSizes(lists) ==
    IF lists = <<>> THEN 1 ELSE Len(Head(lists)) * ProductOfSizes(Tail(lists))

\* the index into child i of output entry r: the first child varies slowest
ComboIndex(lists, r, i) ==
    (((r - 1) \div ProductOfSizes(SubSeq(lists, i + 1, Len(lists)))) % Len(lists[i])) + 1

\* m is the left-to-right union of the parameter sets ps: it has their keys
\* and, for each key, the value of the last of them that has the key
IsUnionOf(m, ps) ==
    /\ KeySet(m) = UNION {KeySet(ps[i]) : i \in 1..Len(ps)}
    /\ \A k \in KeySet(m) :
          LET last == CHOOSE i \in 1..Len(ps) :
                          /\ DictHas(ps[i], k)
                          /\ \A j \in (i + 1)..Len(ps) : ~DictHas(ps[j], k)
          IN  DictGet(m, k, Unused) = DictGet(ps[last], k, Unused)

\* C1: a matrix generator with n >= 2 children of result sizes m1..mn returns
\* m1*...*mn parameter sets, one per tuple of the cartesian product (first
\* child slowest), each the left-to-right union of the tuple's sets in which
\* the later child wins; it is empty when a child expands to nothing.
C1_MatrixIsCartesianProduct ==
    (pc = "done" /\ Len(generator.generators) >= 2) =>
        LET kids == ChildResults
            out == result.params
        IN  /\ ~result.raised
            /\ Len(out) = ProductOfSizes(kids)
            /\ (\E i \in 1..Len(kids) : kids[i] = <<>>) => out = <<>>
            /\ \A r \in 1..Len(out) :
                  IsUnionOf(out[r], [i \in 1..Len(kids) |-> kids[i][ComboIndex(kids, r, i)]])

\* three children, two of them of size 2, with a key on which a later child
\* overrides the different value of an earlier one
C1_Witness ==
    /\ pc = "done"
    /\ Len(generator.generators) = 3
    /\ Len(result.params) >= 4
    /\ \E i, j \in 1..3 :
          /\ i < j
          /\ Len(ChildResults[i]) = 2 /\ Len(ChildResults[j]) = 2
          /\ \E k \in KeySet(ChildResults[i][1]) \cap KeySet(ChildResults[j][1]) :
                DictGet(ChildResults[i][1], k, Unused) # DictGet(ChildResults[j][1], k, Unused)

-----------------------------------------------------------------------------
(* SpecMerge: _expand_merge_generator applied to bounded configurations *)

\* the largest number of children of a merge generator
MaxMergeChildren == 3

\* the children of the merge generators: list generators whose elements agree
\* and differ on the merge-key fields name and env, as strings and as numbers,
\* with and without the separator character in a value
MergeChildPool ==
    { ListOf(<<>>),
      ListOf(<<Elem(<< <<S_name, StrV(<<"a">>)>>, <<<<"r">>, IntV(1)>> >>),
               Elem(<< <<S_name, StrV(<<"b">>)>>, <<<<"r">>, IntV(2)>> >>)>>),
      ListOf(<<Elem(<< <<S_name, StrV(<<"a">>)>>, <<<<"e", "n", "v">>, StrV(<<"p">>)>> >>)>>),
      ListOf(<<Elem(<< <<S_name, StrV(<<"c">>)>>, <<<<"e", "n", "v">>, StrV(<<"q">>)>> >>)>>),
      ListOf(<<Elem(<< <<S_name, StrV(<<"a">>)>>, <<<<"r">>, IntV(9)>> >>),
               Elem(<< <<<<"t">>, StrV(<<"z">>)>>, <<S_name, StrV(<<"a">>)>> >>)>>),
      ListOf(<<Elem(<< <<S_name, StrV(<<"x">>)>>, <<<<"e", "n", "v">>, StrV(<<"y", "|">>)>> >>)>>),
      ListOf(<<Elem(<< <<S_name, StrV(<<"x", "|", "y">>)>> >>)>>),
      ListOf(<<Elem(<< <<S_name, StrV(<<"x">>)>>, <<<<"e", "n", "v">>, StrV(<<"y", "|">>)>> >>),
               Elem(<< <<S_name, StrV(<<"x", "|", "y">>)>>, <<<<"r">>, IntV(3)>> >>)>>),
      ListOf(<<Elem(<< <<S_name, IntV(1)>>, <<<<"r">>, IntV(1)>> >>)>>),
      ListOf(<<Elem(<< <<S_name, StrV(<<"1">>)>>, <<<<"e", "n", "v">>, StrV(<<>>)>> >>)>>) }

MergeKeysPool == { <<>>, <<S_name>>, <<S_name, <<"e", "n", "v">>>> }

InitMerge ==
    /\ pc = "call"
    /\ generator \in {[mergeKeys |-> mk, generators |-> c] :
                         mk \in MergeKeysPool,
                         c \in SeqsUpTo(MergeChildPool, MaxMergeChildren)}
    /\ resolver = ResolverOk
    /\ fs = FsSmall
    /\ result = Unused
    /\ appset = Unused /\ gi = 0 /\ all_params = Unused /\ applications = Unused
    /\ params = Unused /\ selector = Unused /\ obj = Unused /\ tparams = Unused
    /\ heap = Unused /\ args = Unused

\* params = _expand_merge_generator(generator["merge"], resolver, go_template)
ExpandMerge ==
    /\ pc = "call"
    /\ LET r == expand_merge_generator(resolver, fs, generator)
       IN  result' = Returned(r) /\ resolver' = r.rs
    /\ pc' = "done"
    /\ UNCHANGED <<appset, fs, gi, all_params, applications, generator,
                   params, selector, obj, tparams, heap, args>>

NextMerge == ExpandMerge

SpecMerge == InitMerge /\ [][NextMerge]_vars

\* the merge key of a parameter set under the configuration at hand
MergeKeyOf(p) == make_merge_key(p, generator.mergeKeys)

\* the parameter sets of the children after the first, in order
LaterParams == Flat(Tail(ChildResults))

\* the merge keys of the first child's parameter sets
FirstKeys == {MergeKeyOf(ChildResults[1][i]) : i \in 1..Len(ChildResults[1])}

\* the first child's parameter set an entry of key K is seeded from
SeedOf(K) ==
    LET first == ChildResults[1]
        i == CHOOSE i \in 1..Len(first) :
                 /\ MergeKeyOf(first[i]) = K
                 /\ \A j \in (i + 1)..Len(first) : MergeKeyOf(first[j]) # K
    IN  first[i]

\* the later parameter sets of key K, in order
OverlaysOf(K) == SelectSeq(LaterParams, LAMBDA p : MergeKeyOf(p) = K)

\* C2: every parameter set of a later child is overlaid onto the entry of its
\* merge key (its fields replace same-named fields, the others keep their
\* values) and is discarded when the first child seeded no such entry; an
\* entry matched by no later parameter set is the first child's, unchanged.
C2_MergeOverlaysOnFirstChild ==
    (pc = "done" /\ generator.generators # <<>>) =>
        LET out == result.params
        IN  /\ ~result.raised
            /\ Len(out) = Cardinality(FirstKeys)
            /\ \A K \in FirstKeys :
                  \E r \in 1..Len(out) :
                      /\ IsUnionOf(out[r], <<SeedOf(K)>> \o OverlaysOf(K))
                      /\ OverlaysOf(K) = <<>> => DictEq(out[r], SeedOf(K))

\* an entry overlaid by two later parameter sets, an entry left alone, and a
\* later parameter set that is discarded
C2_Witness ==
    /\ pc = "done"
    /\ Len(generator.generators) >= 2
    /\ \E K \in FirstKeys : Len(OverlaysOf(K)) >= 2
    /\ \E K \in FirstKeys : OverlaysOf(K) = <<>>
    /\ \E i \in 1..Len(LaterParams) : MergeKeyOf(LaterParams[i]) \notin FirstKeys

\* C3 as stated: the merge generator returns no more parameter sets than the
\* first child expands to, and none whose merge key does not occur among the
\* first child's parameter sets.
C3_AsStated ==
    (pc = "done" /\ generator.generators # <<>>) =>
        /\ Len(result.params) <= Len(ChildResults[1])
        /\ \A r \in 1..Len(result.params) : MergeKeyOf(result.params[r]) \in FirstKeys

-----------------------------------------------------------------------------
(* Spec: expand_application_set, one generator of the first loop at a time *)

\* the largest number of top-level generators of an ApplicationSet
MaxGenerators == 2

ListAB ==
    ListOf(<<Elem(<< <<S_name, StrV(<<"a">>)>>, <<<<"e", "n", "v">>, StrV(<<"p">>)>> >>),
             Elem(<< <<S_name, StrV(<<"b">>)>>, <<<<"e", "n", "v">>, StrV(<<"q">>)>> >>)>>)
ListA == ListOf(<<Elem(<< <<S_name, StrV(<<"a">>)>>, <<<<"e", "n", "v">>, StrV(<<"p">>)>> >>)>>)

\* the top-level generators: every variant, an unknown and an absent variant,
\* matrix generators of one child, and git generators of the workspace and of
\* the repository "ext", alone and nested in a matrix and in a merge generator
GeneratorPool ==
    { ListAB,
      ListA,
      GitDirsAll(<<>>),
      GitDirsAll(U_ext),
      [clusters |-> <<>>],
      [pullRequest |-> <<>>],
      [values |-> << <<<<"v">>, IntV(1)>> >>],
      [matrix |-> [generators |-> <<ListA>>]],
      [matrix |-> [generators |-> <<GitDirsAll(U_ext)>>]],
      [matrix |-> [generators |-> <<ListA, GitDirsAll(U_ext)>>]],
      [merge |-> [mergeKeys |-> <<S_name>>, generators |-> <<ListAB, GitDirsAll(U_ext)>>]] }

TName == StrV(<<"n", "-">> \o Token(S_name))
TPath == DictV(<< <<S_path, StrV(Token(S_path))>>,
                  <<<<"e">>, ListV(<<StrV(Token(<<"e", "n", "v">>)), StrV(Token(<<"z", "z">>))>>)>> >>)

\* the templates: with metadata and spec, with one of them, with neither, each
\* with and without other top-level fields
TemplatePool ==
    { DictV(<< <<S_metadata, DictV(<< <<S_name, TName>> >>)>>, <<S_spec, TPath>> >>),
      DictV(<< <<<<"x">>, TName>>, <<S_spec, TPath>>,
               <<S_metadata, DictV(<< <<S_name, TName>> >>)>> >>),
      DictV(<< <<S_metadata, DictV(<< <<S_name, TName>> >>)>>, <<<<"x">>, TPath>> >>),
      DictV(<< <<S_spec, TPath>> >>),
      DictV(<< <<S_spec, TPath>>, <<<<"x">>, TName>> >>),
      DictV(<< <<<<"x">>, TName>>, <<<<"y">>, TPath>> >>),
      DictV(<< <<S_kind, StrV(<<"K">>)>>, <<<<"x">>, TName>> >>) }

Init ==
    /\ pc = "expand"
    /\ appset \in [generators : SeqsUpTo(GeneratorPool, MaxGenerators),
                   template : TemplatePool]
    /\ resolver \in {[ResolverOk EXCEPT !.fails = f] : f \in SUBSET {U_ext}}
    /\ fs = FsSmall
    /\ gi = 1
    /\ all_params = <<>>
    /\ applications = <<>>
    /\ result = Unused
    /\ generator = Unused /\ params = Unused /\ selector = Unused
    /\ obj = Unused /\ tparams = Unused
    /\ heap = Unused /\ args = Unused

\* a slip that skips a parameter set already accumulated
RECURSIVE ExtendDeduplicating(_, _)
ExtendDeduplicating(acc, new) ==
    IF new = <<>> THEN acc
    ELSE ExtendDeduplicating(
             IF \E i \in 1..Len(acc) : DictEq(acc[i], Head(new)) THEN acc
             ELSE Append(acc, Head(new)),
             Tail(new))

\* all_params.extend(params)
Extend(acc, new) == acc \o new

\* one iteration of `for generator in appset.generators`: the resolver's error
\* leaves expand_application_set
ExpandNext ==
    /\ pc = "expand"
    /\ gi <= Len(appset.generators)
    /\ LET r == expand_generator(resolver, fs, appset.generators[gi])
       IN  /\ resolver' = r.rs
           /\ \/ /\ r.raised
                 /\ pc' = "raised"
                 /\ UNCHANGED <<gi, all_params>>
              \/ /\ ~r.raised
                 /\ all_params' = Extend(all_params, r.params)
                 /\ gi' = gi + 1
                 /\ pc' = "expand"
    /\ UNCHANGED <<appset, fs, applications, generator, result,
                   params, selector, obj, tparams, heap, args>>

\* the loop `for params in all_params` and the return
BuildApplications ==
    /\ pc = "expand"
    /\ gi > Len(appset.generators)
    /\ applications' = [i \in 1..Len(all_params) |->
                           Envelope(substitute_params_deep(appset.template, all_params[i]))]
    /\ result' = applications'
    /\ pc' = "done"
    /\ UNCHANGED <<appset, resolver, fs, gi, all_params, generator,
                   params, selector, obj, tparams, heap, args>>

Next == ExpandNext \/ BuildApplications

Spec == Init /\ [][Next]_vars

\* the Dispatcher expansion of top-level generator i
GeneratorResult(i) == expand_generator(resolver, fs, appset.generators[i]).params

RECURSIVE SumOfSizes(_)
SumOfSizes(n) == IF n = 0 THEN 0 ELSE SumOfSizes(n - 1) + Len(GeneratorResult(n))

\* the i-th parameter set in generator order, then within-generator order:
\* the one at offset i in generator g or, past its end, in the generators after
RECURSIVE ParamFrom(_, _)
ParamFrom(g, i) ==
    IF i <= Len(GeneratorResult(g)) THEN GeneratorResult(g)[i]
    ELSE ParamFrom(g + 1, i - Len(GeneratorResult(g)))

\* C6: expand_application_set returns one document per parameter set of the
\* concatenation of the top-level generators' expansions: as many documents as
\* the generators' results together, document i built from the i-th parameter
\* set in generator order then within-generator order, nothing deduplicated.
C6_OneDocumentPerParameterSet ==
    pc = "done" =>
        /\ Len(result) = SumOfSizes(Len(appset.generators))
        /\ \A i \in 1..Len(result) :
              result[i] = Envelope(substitute_params_deep(appset.template, ParamFrom(1, i)))

\* two generators that each produce the same parameter set
C6_Witness ==
    /\ pc = "done"
    /\ Len(appset.generators) = 2
    /\ appset.generators[1] # appset.generators[2]
    /\ \E i \in 1..Len(GeneratorResult(1)) : \E j \in 1..Len(GeneratorResult(2)) :
          /\ DictEq(GeneratorResult(1)[i], GeneratorResult(2)[j])
          /\ result[i] = result[Len(GeneratorResult(1)) + j]

\* the template of document i after substitution
Substituted(i) == substitute_params_deep(appset.template, all_params[i])

HasBoth(t) == DictHas(t.items, S_metadata) /\ DictHas(t.items, S_spec)

Field(doc, k) == DictGet(doc.items, k, Unused)

\* C7: when the substituted template has both metadata and spec, the document
\* is exactly the apiVersion and kind markers plus those two fields as they are.
C7_EnvelopeAroundMetadataAndSpec ==
    pc = "done" =>
        \A i \in 1..Len(result) :
            HasBoth(Substituted(i)) =>
                /\ result[i].t = "dict"
                /\ Len(result[i].items) = 4
                /\ KeySet(result[i].items) = {S_apiVersion, S_kind, S_metadata, S_spec}
                /\ Field(result[i], S_apiVersion) = StrV(S_argoproj)
                /\ Field(result[i], S_kind) = StrV(S_Application)
                /\ Field(result[i], S_metadata) = Field(Substituted(i), S_metadata)
                /\ Field(result[i], S_spec) = Field(Substituted(i), S_spec)

\* a template with metadata, spec and a third field, expanded to a document
C7_Witness ==
    /\ pc = "done"
    /\ result # <<>>
    /\ HasBoth(Substituted(1))
    /\ Len(Substituted(1).items) = 3
    /\ Substituted(1) # appset.template

\* the document carries the whole template t: under the markers, each
\* top-level field of t with its value, or t itself as the spec
CarriesWhole(doc, t) ==
    /\ {S_apiVersion, S_kind} \subseteq KeySet(doc.items)
    /\ \/ \A k \in KeySet(t.items) : DictHas(doc.items, k) /\ Field(doc, k) = Field(t, k)
       \/ DictHas(doc.items, S_spec) /\ Field(doc, S_spec) = t

\* C8 as stated: when the substituted template does not have both metadata and
\* spec, the document carries the whole substituted template, with every one of
\* its top-level fields, under the envelope.
C8_AsStated ==
    pc = "done" =>
        \A i \in 1..Len(result) :
            ~HasBoth(Substituted(i)) => CarriesWhole(result[i], Substituted(i))

\* C8 amended: with neither field the document is the markers overlaid with
\* every top-level field of the substituted template; with metadata only its
\* metadata is the template's and its spec is the whole substituted template;
\* with spec only its metadata is empty, its spec is the template's spec and
\* the template's other top-level fields are not carried.
C8_EnvelopeOfPartialTemplate ==
    pc = "done" =>
        \A i \in 1..Len(result) :
            LET t == Substituted(i)
                doc == result[i]
                markers == << <<S_apiVersion, StrV(S_argoproj)>>,
                              <<S_kind, StrV(S_Application)>> >>
            IN  ~HasBoth(t) =>
                   IF DictHas(t.items, S_metadata)
                   THEN DictEq(doc.items, markers \o << <<S_metadata, Field(t, S_metadata)>>,
                                                       <<S_spec, t>> >>)
                   ELSE IF DictHas(t.items, S_spec)
                   THEN DictEq(doc.items, markers \o << <<S_metadata, DictV(<<>>)>>,
                                                       <<S_spec, Field(t, S_spec)>> >>)
                   ELSE IsUnionOf(doc.items, <<markers, t.items>>)

\* a template with spec, no metadata and another field, expanded to a document
C8_Witness ==
    /\ pc = "done"
    /\ result # <<>>
    /\ DictHas(Substituted(1).items, S_spec)
    /\ ~DictHas(Substituted(1).items, S_metadata)
    /\ Len(Substituted(1).items) = 2

\* the resolver fails for the repository of a git configuration
ResolverFailsFor(cfg) ==
    LET repo_url == Get(cfg, "repoURL", <<>>)
    IN  /\ repo_url # <<>>
        /\ normalize_repo_url(repo_url) # resolver.local_key
        /\ normalize_repo_url(repo_url) \in resolver.fails

\* the expansion of g reaches a git generator for which the resolver fails:
\* g itself, or a child of a matrix generator of two or more children, or a
\* child of a merge generator
RECURSIVE ReachesFailingGit(_)
ReachesFailingGit(g) ==
    LET v == Variant(g)
    IN  IF v = "git" THEN ResolverFailsFor(g.git)
        ELSE IF v = "matrix"
        THEN /\ Len(Get(g.matrix, "generators", <<>>)) >= 2
             /\ \E i \in 1..Len(g.matrix.generators) : ReachesFailingGit(g.matrix.generators[i])
        ELSE IF v = "merge"
        THEN \E i \in 1..Len(Get(g.merge, "generators", <<>>)) :
                 ReachesFailingGit(g.merge.generators[i])
        ELSE FALSE

\* C9: when the resolver fails for a git generator reached during expansion,
\* top-level or nested in a matrix or merge generator, expand_application_set
\* does not get past that generator and returns no document, also when earlier
\* generators had expanded.
C9_ResolverFailurePropagates ==
    \A i \in 1..Len(appset.generators) :
        ReachesFailingGit(appset.generators[i]) =>
            /\ gi <= i
            /\ pc # "done"
            /\ applications = <<>>
            /\ result = Unused

\* the error of a nested git generator has left expand_application_set after
\* an earlier generator had produced parameter sets
C9_Witness ==
    /\ pc = "raised"
    /\ gi = 2
    /\ all_params # <<>>
    /\ Variant(appset.generators[2]) \in {"matrix", "merge"}
    /\ applications = <<>>

\* a generator of an unknown or absent variant, or a matrix generator of fewer
\* than 2 children
IsSoftFailing(g) ==
    \/ Variant(g) = "unsupported"
    \/ Variant(g) = "matrix" /\ Len(Get(g.matrix, "generators", <<>>)) < 2

\* the parameter sets of the first n generators, those of IsSoftFailing left out
RECURSIVE RemainingParams(_)
RemainingParams(n) ==
    IF n = 0 THEN <<>>
    ELSE RemainingParams(n - 1)
         \o (IF IsSoftFailing(appset.generators[n]) THEN <<>> ELSE GeneratorResult(n))

\* C10: a generator of an unknown or absent variant and a matrix generator of
\* fewer than 2 children expand to nothing without raising, and the documents
\* of expand_application_set are those of the other generators, in order.
C10_SoftFailuresContributeNothing ==
    /\ \A i \in 1..Len(appset.generators) :
          IsSoftFailing(appset.generators[i]) => ~(pc = "raised" /\ gi = i)
    /\ pc = "expand" => all_params = RemainingParams(gi - 1)
    /\ pc = "done" =>
          result = [i \in 1..Len(RemainingParams(Len(appset.generators))) |->
                       Envelope(substitute_params_deep(appset.template,
                           RemainingParams(Len(appset.generators))[i]))]

\* a matrix generator whose only child is a git generator of a repository that
\* cannot be cloned, followed by a generator whose documents are returned
C10_Witness ==
    /\ pc = "done"
    /\ Len(appset.generators) = 2
    /\ IsSoftFailing(appset.generators[1])
    /\ Variant(appset.generators[1]) = "matrix"
    /\ resolver.fails # {}
    /\ Variant(appset.generators[1].matrix.generators[1]) = "git"
    /\ ~IsSoftFailing(appset.generators[2])
    /\ result # <<>>

-----------------------------------------------------------------------------
(* SpecGit: _expand_git_generator applied to bounded configurations and trees *)

\* the longest list of directories entries of a git generator
MaxDirEntries == 3

\* what reading and parsing a file can give (see FileData)
Parsed(v) == [raised |-> FALSE, value |-> v]
ParseError == [raised |-> TRUE, value |-> NoneV]
ContentPool ==
    { \* a YAML or JSON record with a nested record
      [read |-> "ok",
       yaml |-> Parsed(DictV(<< <<<<"e", "n", "v">>, StrV(<<"d", "e", "v">>)>>,
                               <<<<"m">>, DictV(<< <<<<"x">>, IntV(1)>> >>)>> >>)),
       json |-> ParseError],
      \* a record that has keys of the path parameters itself
      [read |-> "ok",
       yaml |-> Parsed(DictV(<< <<<<"p", "a", "t", "h">>, StrV(<<"q">>)>>,
                               <<<<"p">>, DictV(<< <<<<"p", "a", "t", "h">>, IntV(2)>> >>)>> >>)),
       json |-> ParseError],
      \* a file that cannot be opened
      [read |-> "OSError", yaml |-> ParseError, json |-> ParseError],
      \* a file whose bytes are not text
      [read |-> "UnicodeDecodeError", yaml |-> ParseError, json |-> ParseError],
      \* text that is neither YAML nor JSON
      [read |-> "ok", yaml |-> ParseError, json |-> ParseError],
      \* a JSON record indented with tabs, which YAML does not allow
      [read |-> "ok", yaml |-> ParseError,
       json |-> Parsed(DictV(<< <<<<"e", "n", "v">>, StrV(<<"d", "e", "v">>)>> >>))],
      \* a list in both formats
      [read |-> "ok", yaml |-> Parsed(ListV(<<IntV(1)>>)), json |-> Parsed(ListV(<<IntV(1)>>))],
      \* a YAML scalar that is not JSON
      [read |-> "ok", yaml |-> Parsed(StrV(<<"h", "e", "l", "l", "o">>)), json |-> ParseError],
      \* an empty file
      [read |-> "ok", yaml |-> Parsed(NoneV), json |-> ParseError] }

EmptyFile == [read |-> "ok", yaml |-> Parsed(NoneV), json |-> ParseError]

F_top == << <<"t", ".", "j", "s", "o", "n">> >>
F_deep_c == << <<"e">>, <<"d">>, <<"c", ".", "j", "s", "o", "n">> >>
F_deep_b == << <<"e">>, <<"d">>, <<"b", ".", "y", "a", "m", "l">> >>

\* the workspace tree: directories of depths 1 and 2 whose order as strings
\* differs from their order as paths, and three files
GitTree(c1, c2, c3) ==
    Workspace :> [dirs |-> { << <<"a">> >>, << <<"a">>, <<"b">> >>, << <<"a", "-", "b">> >>, << <<"B", "_", "2">> >>,
                             << <<"e">> >>, << <<"e">>, <<"d">> >> },
                  files |-> (F_top :> c1) @@ (F_deep_c :> c2) @@ (F_deep_b :> c3)]

DirPatternPool == { <<"*">>, <<"*", "/", "*">>, <<"a">>, <<"a", "/", "b">>, <<"a", "-", "b">>, <<"a", "?", "b">>, <<>> }
DirEntryPool ==
    {[path |-> p] : p \in DirPatternPool}
    \cup {[path |-> p, exclude |-> TRUE] : p \in DirPatternPool}

FileEntriesPool ==
    { << [path |-> <<"e", "/", "*", "/", "*">>] >>,
      << [path |-> <<"*", "/", "*", "/", "*">>], [path |-> <<"e", "/", "d", "/", "c", ".", "j", "s", "o", "n">>] >>,
      << [path |-> <<"e", "/", "*", "/", "*">>], [path |-> <<"e", "/", "d", "/", "c", ".", "j", "s", "o", "n">>, exclude |-> TRUE] >>,
      << [path |-> <<"e", "/", "d", "/", "c", ".", "j", "s", "o", "n">>, exclude |-> TRUE], [path |-> <<"e", "/", "*", "/", "*", ".", "j", "s", "o", "n">>] >>,
      << [path |-> <<"e", "/", "d", "/", "c", ".", "j", "s", "o", "n">>, exclude |-> TRUE] >>,
      << [path |-> <<"e", "/", "d", "/", "c", ".", "j", "s", "o", "n">>, exclude |-> TRUE], [path |-> <<"*", "/", "*", "/", "*">>],
         [path |-> <<"e", "/", "d", "/", "c", ".", "j", "s", "o", "n">>] >>,
      << [path |-> <<"*">>] >>,
      << [path |-> <<"*">>], [path |-> <<"e", "/", "*", "/", "?", ".", "y", "a", "m", "l">>, exclude |-> FALSE] >> }

PrefixPool == { <<>>, <<"p">>, <<"p", "a", "t", "h">> }

WithPrefix(cfg, prefix) ==
    IF prefix = <<>> THEN cfg ELSE cfg @@ [pathParamPrefix |-> prefix]

InitGit ==
    /\ pc = "call"
    /\ resolver = ResolverOk
    /\ \/ /\ \E ds \in SeqsUpTo(DirEntryPool, MaxDirEntries), prefix \in PrefixPool :
                generator = WithPrefix([directories |-> ds], prefix)
          /\ fs = GitTree(EmptyFile, EmptyFile, EmptyFile)
       \/ /\ \E fe \in FileEntriesPool, prefix \in PrefixPool :
                generator = WithPrefix([files |-> fe], prefix)
          /\ \E c1, c2, c3 \in ContentPool : fs = GitTree(c1, c2, c3)
    /\ result = Unused
    /\ appset = Unused /\ gi = 0
    /\ all_params = Unused /\ applications = Unused
    /\ params = Unused /\ selector = Unused /\ obj = Unused /\ tparams = Unused
    /\ heap = Unused /\ args = Unused

\* params = _expand_git_generator(generator["git"], resolver)
ExpandGit ==
    /\ pc = "call"
    /\ LET r == expand_git_generator(resolver, fs, generator)
       IN  result' = Returned(r) /\ resolver' = r.rs
    /\ pc' = "done"
    /\ UNCHANGED <<appset, fs, gi, all_params, applications, generator,
                   params, selector, obj, tparams, heap, args>>

NextGit == ExpandGit

SpecGit == InitGit /\ [][NextGit]_vars

\* the files the entries without exclude: true match, entry by entry
MatchedFiles ==
    LET fe == generator.files
    IN  Flat([i \in 1..Len(fe) |->
                IF Get(fe[i], "exclude", FALSE) THEN <<>>
                ELSE SortedPaths(GlobFiles(fs, Workspace, fe[i].path))])

ContentOf(f) == fs[Workspace].files[f]

\* the file can be read and parses, as YAML or as JSON, to a record
YieldsRecord(c) ==
    /\ c.read = "ok"
    /\ \/ ~c.yaml.raised /\ c.yaml.value.t = "dict"
       \/ ~c.json.raised /\ c.json.value.t = "dict"

\* C11 as stated: in the Git-File generator no content of a matched file makes
\* the generator raise; a matched file that cannot be read, cannot be parsed
\* in either format or parses to a non-record is skipped, and every other
\* matched file yields its parameter set.
C11_AsStated ==
    (pc = "done" /\ Has(generator, "files")) =>
        /\ ~result.raised
        /\ Len(result.params)
             = Cardinality({i \in 1..Len(MatchedFiles) : YieldsRecord(ContentOf(MatchedFiles[i]))})

\* the directories the entries of the given exclude flag match
DirMatches(excluded) ==
    LET ds == generator.directories
    IN  UNION {find_matching_directories(fs, Get(ds[i], "path", <<>>), Workspace) :
                  i \in {j \in 1..Len(ds) : Get(ds[j], "exclude", FALSE) = excluded}}

\* the directories emitted, read from the path parameter of the result
EmittedPaths == {DictGet(result.params[i], S_path, NoneV) : i \in 1..Len(result.params)}

\* C12: the set of directories the Git-Directory generator emits is the union
\* of the matches of the entries without exclude minus the union of the
\* matches of the entries with exclude: true, whatever the order of the
\* entries.
C12_DirectoriesAreIncludesMinusExcludes ==
    (pc = "done" /\ Has(generator, "directories")) =>
        /\ ~result.raised
        /\ EmittedPaths = {StrV(PathStr(d)) : d \in DirMatches(FALSE) \ DirMatches(TRUE)}

\* an include entry listed after an exclude entry matches a directory of the
\* exclude entry, which is not emitted, beside directories that are
C12_Witness ==
    /\ pc = "done" /\ Has(generator, "directories")
    /\ Len(generator.directories) = 2
    /\ Get(generator.directories[1], "exclude", FALSE)
    /\ ~Get(generator.directories[2], "exclude", FALSE)
    /\ \E d \in DirMatches(TRUE) \cap DirMatches(FALSE) : StrV(PathStr(d)) \notin EmittedPaths
    /\ result.params # <<>>

\* the directories that survive the exclusion
SurvivingDirs == DirMatches(FALSE) \ DirMatches(TRUE)

\* the surviving directory that entry i of the result was made from
EmittedDir(i) ==
    CHOOSE d \in SurvivingDirs : StrV(PathStr(d)) = DictGet(result.params[i], S_path, NoneV)

\* a comes before b when the paths are compared component by component: at
\* the first place where they differ a has ended or has the smaller string
ComponentsBefore(a, b) ==
    \E k \in 1..Len(b) :
        /\ \A m \in 1..(k - 1) : m <= Len(a) /\ a[m] = b[m]
        /\ \/ Len(a) = k - 1
           \/ Len(a) >= k /\ a[k] # b[k] /\ StrLess(a[k], b[k])

\* C13 as stated: one parameter set per surviving directory, the sequence
\* ordered lexicographically by the relative path string, also for paths of
\* different depths.
C13_AsStated ==
    (pc = "done" /\ Has(generator, "directories")) =>
        /\ Len(result.params) = Cardinality(SurvivingDirs)
        /\ EmittedPaths = {StrV(PathStr(d)) : d \in SurvivingDirs}
        /\ \A i, j \in 1..Len(result.params) :
              i < j => StrLess(PathStr(EmittedDir(i)), PathStr(EmittedDir(j)))

\* C13 amended: one parameter set per surviving directory (a directory
\* matched by several include patterns appears once), the sequence ordered
\* lexicographically by the sequence of path components, each component
\* compared as a string.
C13_OnePerDirectorySortedByComponents ==
    (pc = "done" /\ Has(generator, "directories")) =>
        /\ Len(result.params) = Cardinality(SurvivingDirs)
        /\ EmittedPaths = {StrV(PathStr(d)) : d \in SurvivingDirs}
        /\ \A i, j \in 1..Len(result.params) :
              i < j => ComponentsBefore(EmittedDir(i), EmittedDir(j))

\* two include patterns match directories of depths 1 and 2, one directory
\* by both, and two neighbours of the output stand in the other order as
\* strings
C13_Witness ==
    /\ pc = "done" /\ Has(generator, "directories")
    /\ Len(generator.directories) = 3
    /\ \E d \in SurvivingDirs :
          \E k, l \in 1..3 :
            k # l /\ \A n \in {k, l} : d \in find_matching_directories(fs, generator.directories[k].path,
                                                          Workspace)
    /\ \E i \in 1..(Len(result.params) - 1) :
          /\ Len(EmittedDir(i)) = 2 /\ Len(EmittedDir(i + 1)) = 1
          /\ StrLess(PathStr(EmittedDir(i + 1)), PathStr(EmittedDir(i)))

\* the unprefixed path keys of a parameter set whose path has n components
PathKeys(n) ==
    {S_path, S_path_path, S_path_basename, S_path_basenameNormalized}
    \cup {S_path_segments \o Digits(i) : i \in 0..(n - 1)}

\* the keys of p that name a segment without prefix
SegmentKeys(p) ==
    {k \in KeySet(p) : Len(k) > Len(S_path_segments)
                       /\ SubSeq(k, 1, Len(S_path_segments)) = S_path_segments}

\* C14: every parameter set of the Git-Directory generator has the unprefixed
\* keys path, path.path, path.basename, path.basenameNormalized and one
\* path.segments.<i> per '/'-delimited component of the path, with or without
\* a configured prefix; with a prefix P it has each of them under "P." too,
\* with the value of its unprefixed twin.
C14_UnprefixedAndPrefixedPathKeys ==
    (pc = "done" /\ Has(generator, "directories")) =>
        \A r \in 1..Len(result.params) :
            LET p == result.params[r]
                n == Len(Split(DictGet(p, S_path, StrV(<<>>)).s, "/"))
            IN  /\ PathKeys(n) \subseteq KeySet(p)
                /\ Cardinality(SegmentKeys(p)) = n
                /\ Has(generator, "pathParamPrefix") =>
                      \A k \in PathKeys(n) :
                          LET twin == generator.pathParamPrefix \o <<".">> \o k
                          IN  /\ DictHas(p, twin)
                              /\ DictGet(p, twin, NoneV) = DictGet(p, k, NoneV)

\* a prefix is configured and a directory of two components is emitted
C14_Witness ==
    /\ pc = "done" /\ Has(generator, "directories")
    /\ Has(generator, "pathParamPrefix")
    /\ \E r \in 1..Len(result.params) :
          /\ DictHas(result.params[r], S_path_segments \o <<"1">>)
          /\ DictHas(result.params[r], generator.pathParamPrefix \o <<".">> \o S_path_segments \o <<"1">>)

\* C15 as stated: every parameter set of the Git-File generator has the keys
\* of the Git-Directory generator (path, path.path, path.basename,
\* path.basenameNormalized, path.segments.<i>) computed for the file's parent
\* directory, and path.filename and path.filenameNormalized for the file's
\* name, each key without prefix and under the configured prefix.
C15_AsStated ==
    (pc = "done" /\ Has(generator, "files")) =>
        \A r \in 1..Len(result.params) :
            LET p == result.params[r]
                parent == DictGet(p, S_path_path, StrV(<<>>))
                segments == Split(parent.s, "/")
                keys == PathKeys(Len(segments)) \cup {S_path_filename, S_path_filenameNormalized}
            IN  /\ keys \subseteq KeySet(p)
                /\ DictGet(p, S_path, NoneV) = parent
                /\ \A i \in 1..Len(segments) :
                      DictGet(p, S_path_segments \o Digits(i - 1), NoneV) = StrV(segments[i])
                /\ Has(generator, "pathParamPrefix") =>
                      \A k \in keys :
                          DictGet(p, generator.pathParamPrefix \o <<".">> \o k, NoneV)
                              = DictGet(p, k, NoneV)

\* the entries of the given exclude flag whose pattern matches the file f
EntriesMatching(f, excluded) ==
    {i \in 1..Len(generator.files) :
        /\ Get(generator.files[i], "exclude", FALSE) = excluded
        /\ f \in GlobFiles(fs, Workspace, generator.files[i].path)}

\* how many parameter sets of the result were made from the file f
TimesEmitted(f) ==
    Cardinality({r \in 1..Len(result.params) :
                    DictGet(result.params[r], S_path, NoneV) = StrV(PathStr(f))})

\* C16: in the Git-File generator an entry with exclude: true contributes
\* nothing and removes nothing: when the generator returns, a file that
\* yields a record is emitted once per entry without exclude that matches it,
\* whether or not an entry with exclude: true matches it too, and a file that
\* only entries with exclude: true match is not emitted.
C16_FileExcludeEntriesAreIgnored ==
    (pc = "done" /\ Has(generator, "files") /\ ~result.raised) =>
        \A f \in DOMAIN fs[Workspace].files :
            TimesEmitted(f) = IF FileData(ContentOf(f)).kind = "data"
                              THEN Cardinality(EntriesMatching(f, FALSE)) ELSE 0

\* a file matched by two entries without exclude and by one with exclude:
\* true is emitted twice
C16_Witness ==
    /\ pc = "done" /\ Has(generator, "files") /\ ~result.raised
    /\ \E f \in DOMAIN fs[Workspace].files :
          /\ EntriesMatching(f, TRUE) # {}
          /\ Cardinality(EntriesMatching(f, FALSE)) = 2
          /\ TimesEmitted(f) = 2

-----------------------------------------------------------------------------
(* SpecDispatch: _expand_generator applied twice in succession to one        *)
(* configuration, with the resolver the first expansion leaves               *)

GitDirsAt(repo_url, revision) ==
    [git |-> [repoURL |-> repo_url, revision |-> revision,
              directories |-> <<[path |-> <<"*">>]>>]]

\* lists whose elements bring a key values.v of their own, flat and nested
ListWithValuesKey ==
    ListOf(<<Elem(<< <<S_name, StrV(<<"a">>)>>, <<<<"v", "a", "l", "u", "e", "s", ".", "v">>, StrV(<<"o", "l", "d">>)>> >>),
             Elem(<< <<S_name, StrV(<<"b">>)>>,
                     <<<<"v", "a", "l", "u", "e", "s">>, DictV(<< <<<<"v">>, IntV(9)>> >>)>> >>)>>)

\* a list whose element holds a sequence, and a map that holds a sequence
ListNested ==
    ListOf(<<Elem(<< <<S_name, StrV(<<"c">>)>>,
                     <<<<"t", "a", "g", "s">>, ListV(<<StrV(<<"x">>)>>)>>,
                     <<<<"m">>, DictV(<< <<<<"k">>, ListV(<<IntV(1)>>)>> >>)>> >>)>>)

\* every variant, an unknown one, configurations with the keys of two
\* variants, and git generators of a repository to clone, at its default
\* branch and at a revision, alone and as children
DispatchPool ==
    { ListAB,
      ListWithValuesKey,
      ListNested,
      GitDirsAll(<<>>),
      GitDirsAll(U_ext),
      GitDirsAt(U_ext, R_v1),
      [clusters |-> <<>>],
      [pullRequest |-> <<>>],
      ListA @@ GitDirsAll(<<>>),
      ListA @@ GitDirsAll(U_ext),
      GitDirsAll(U_ext) @@ [clusters |-> <<>>],
      [clusters |-> <<>>] @@ [matrix |-> [generators |-> <<ListA, GitDirsAll(U_ext)>>]],
      [matrix |-> [generators |-> <<ListA, ListAB>>]]
          @@ [merge |-> [mergeKeys |-> <<S_name>>, generators |-> <<GitDirsAll(U_ext)>>]],
      [matrix |-> [generators |-> <<ListA, GitDirsAt(U_ext, R_v1)>>]],
      [matrix |-> [generators |-> <<GitDirsAll(U_ext), GitDirsAt(U_ext, R_v1)>>]],
      [merge |-> [mergeKeys |-> <<S_name>>, generators |-> <<ListAB, ListWithValuesKey>>]] }

ValuesPool ==
    { << <<<<"v">>, IntV(1)>> >>,
      << <<<<"w">>, StrV(<<"x">>)>>, <<<<"v">>, IntV(1)>> >> }

DispatchSelectorPool ==
    { [matchLabels |-> << <<<<"v", "a", "l", "u", "e", "s", ".", "v">>, StrV(<<"1">>)>> >>],
      [matchExpressions |-> <<[key |-> S_name, operator |-> "In",
                               values |-> <<StrV(<<"a">>)>>]>>] }

\* the resolvers: every clone succeeds; the clone of "ext" fails; "v1" is no
\* branch of "ext" and cannot be checked out
DispatchResolverPool ==
    { ResolverOk,
      [ResolverOk EXCEPT !.fails = {U_ext}],
      [ResolverOk EXCEPT !.badrevs = {<<U_ext, R_v1>>}] }

InitDispatch ==
    /\ pc = "call"
    /\ \E g \in DispatchPool :
          \E vs \in {<<>>} \cup {<<v>> : v \in ValuesPool},
             ss \in {<<>>} \cup {<<x>> : x \in DispatchSelectorPool} :
             generator = g @@ (IF vs = <<>> THEN <<>> ELSE [values |-> vs[1]])
                           @@ (IF ss = <<>> THEN <<>> ELSE [selector |-> ss[1]])
    /\ resolver \in DispatchResolverPool
    /\ fs = FsSmall
    /\ result = <<>>
    /\ appset = Unused /\ gi = 0
    /\ all_params = Unused /\ applications = Unused
    /\ params = Unused /\ selector = Unused /\ obj = Unused /\ tparams = Unused
    /\ heap = Unused /\ args = Unused

\* params = _expand_generator(generator, resolver, go_template), called a
\* first and a second time: result collects what the calls gave. The code
\* writes the values into dicts the leaf generators have just built, so the
\* configuration itself stays as it is; the resolver keeps its cache and its
\* clones.
Dispatch ==
    /\ pc \in {"call", "once"}
    /\ LET r == expand_generator(resolver, fs, generator)
       IN  result' = Append(result, Returned(r)) /\ resolver' = r.rs
    /\ pc' = IF pc = "call" THEN "once" ELSE "twice"
    /\ UNCHANGED <<appset, fs, gi, all_params, applications, generator,
                   params, selector, obj, tparams, heap, args>>

NextDispatch == Dispatch

SpecDispatch == InitDispatch /\ [][NextDispatch]_vars

\* the configuration without its values and its selector: what the variant
\* itself produces
Bare(g) == [k \in DOMAIN g \ {"values", "selector"} |-> g[k]]

\* C17: for a configuration of a supported variant with a non-empty values
\* mapping, every parameter set the dispatcher returns has, for every key k of
\* values, the key values.<k> with the configured value, also when the
\* generator had produced a key values.<k> with another value.
C17_ValuesOverwriteProducedKeys ==
    (pc # "call" /\ Variant(generator) # "unsupported"
     /\ Has(generator, "values") /\ generator.values # <<>>) =>
        \A r \in 1..Len(result[1].params) :
            \A j \in 1..Len(generator.values) :
                DictGet(result[1].params[r], S_values \o generator.values[j][1], NoneV)
                    = generator.values[j][2]

\* the generator produces a parameter set with another value under values.v,
\* and the configured value is in the set returned
C17_Witness ==
    /\ pc # "call" /\ Variant(generator) # "unsupported"
    /\ Has(generator, "values") /\ ~Has(generator, "selector")
    /\ \E r \in 1..Len(result[1].params) :
          LET produced == expand_generator(resolver, fs, Bare(generator)).params[r]
              k == S_values \o generator.values[1][1]
          IN  /\ DictHas(produced, k)
              /\ DictGet(produced, k, NoneV) # generator.values[1][2]
              /\ DictGet(result[1].params[r], k, NoneV) = generator.values[1][2]

\* C18 as stated: expanding a configuration twice in succession through the
\* dispatcher, with the filesystem unchanged and the same resolver, gives the
\* same outcome both times: the same parameter sets in the same order.
C18_AsStated == pc = "twice" => result[2] = result[1]

-----------------------------------------------------------------------------
(* SpecNormalize: _normalize_name applied to a name and then to its own result *)

\* the longest name handed to _normalize_name
MaxNameLen == 4

\* a lower-case and an upper-case letter, a digit, the hyphen and two
\* characters outside [a-zA-Z0-9-]
NameChars == {"a", "Z", "0", "-", "_", "."}

InitNormalize ==
    /\ pc = "call"
    /\ obj \in SeqsUpTo(NameChars, MaxNameLen)
    /\ result = <<>>
    /\ appset = Unused /\ resolver = Unused /\ fs = Unused /\ gi = 0
    /\ all_params = Unused /\ applications = Unused /\ generator = Unused
    /\ params = Unused /\ selector = Unused /\ tparams = Unused
    /\ heap = Unused /\ args = Unused

\* _normalize_name(name), then _normalize_name of what it returned: result
\* collects the returned strings
Normalize ==
    /\ pc \in {"call", "once"}
    /\ result' = Append(result, normalize_name(IF pc = "call" THEN obj ELSE result[1]))
    /\ pc' = IF pc = "call" THEN "once" ELSE "twice"
    /\ UNCHANGED <<appset, resolver, fs, gi, all_params, applications, generator,
                   params, selector, obj, tparams, heap, args>>

NextNormalize == Normalize

SpecNormalize == InitNormalize /\ [][NextNormalize]_vars

\* the characters of [a-z0-9-]
NormalChars == {LowerChars[i] : i \in 1..26} \cup {DigitChars[i] : i \in 1..10} \cup {"-"}

\* C19: for every input string the output of _normalize_name has only
\* characters of [a-z0-9-] and neither starts nor ends with a hyphen.
C19_NormalizedAlphabet ==
    pc # "call" =>
        LET out == result[1]
        IN  /\ \A i \in 1..Len(out) : out[i] \in NormalChars
            /\ out # <<>> => out[1] # "-" /\ out[Len(out)] # "-"

\* a name that starts with a character outside the class and has an
\* upper-case letter and a character outside the class inside
C19_Witness ==
    /\ pc # "call"
    /\ Len(obj) = MaxNameLen
    /\ obj[1] \in {"_", "."}
    /\ \E i, j \in 2..(Len(obj) - 1) : obj[i] = "Z" /\ obj[j] \in {"_", "."}
    /\ Len(result[1]) = 3

\* C20: _normalize_name returns a value for every string, and normalizing
\* what it returned gives the same string again.
C20_NormalizeIdempotent ==
    /\ pc # "call" => Len(result) >= 1
    /\ pc = "twice" => result[2] = result[1]

\* a name the first normalization changes at both ends and inside
C20_Witness ==
    /\ pc = "twice"
    /\ Len(obj) >= 3
    /\ obj[1] = "-" /\ obj[2] \in {"-", "_", "."} /\ obj[Len(obj)] \in {"-", "_", "."}
    /\ result[1] # <<>> /\ result[1] # obj
    /\ result[2] = result[1]


\* a str, an int (the scalars of the model's values)
IsScalar(v) == v.t \in {"str", "int"}

\* C21 as stated: every value of every parameter set the dispatcher returns
\* is a scalar; no parameter set holds a map or a sequence as a value.
C21_AsStated ==
    pc # "call" =>
        \A r \in 1..Len(result[1].params) :
            \A i \in 1..Len(result[1].params[r]) : IsScalar(result[1].params[r][i][2])

-----------------------------------------------------------------------------
(* SpecCopy: the second loop of expand_application_set over objects with    *)
(* identity. A map or a sequence is an object at an address of the heap; a  *)
(* value is a scalar or a reference to an object. Python builds a new       *)
(* object for every dict display and every comprehension it evaluates.      *)

\* a reference to the object at address a
Ref(a) == [t |-> "ref", a |-> a]

\* the heap with one more object, and the reference to it
New(h, cell) == [heap |-> Append(h, cell), value |-> Ref(Len(h) + 1)]

\* a value in front of the values made after it
ConsValue(v, rest) == [heap |-> rest.heap, values |-> <<v>> \o rest.values]

\* the template as the parser built it: one object for every map and sequence
RECURSIVE Load(_, _)
RECURSIVE LoadAll(_, _)
LoadRest(first, later) == ConsValue(first.value, LoadAll(first.heap, later))

LoadAll(h, vs) ==
    IF vs = <<>> THEN [heap |-> h, values |-> <<>>]
    ELSE LoadRest(Load(h, Head(vs)), Tail(vs))

\* {k: v for ...} and [v for ...]: a new object holding the values made
NewDict(keys, made) ==
    New(made.heap, DictV([i \in 1..Len(keys) |-> <<keys[i], made.values[i]>>]))
NewList(made) == New(made.heap, ListV(made.values))

Load(h, v) ==
    IF v.t = "dict" THEN NewDict(Keys(v.items), LoadAll(h, DictValues(v.items)))
    ELSE IF v.t = "list" THEN NewList(LoadAll(h, v.xs))
    ELSE [heap |-> h, value |-> v]

\* the value a reference stands for, objects written out
RECURSIVE Deref(_, _)
Deref(h, v) ==
    IF v.t # "ref" THEN v
    ELSE IF h[v.a].t = "dict"
    THEN DictV([i \in 1..Len(h[v.a].items) |->
                   <<h[v.a].items[i][1], Deref(h, h[v.a].items[i][2])>>])
    ELSE ListV([i \in 1..Len(h[v.a].xs) |-> Deref(h, h[v.a].xs[i])])

\* the values an object holds
Held(cell) == IF cell.t = "dict" THEN DictValues(cell.items) ELSE cell.xs

\* the addresses of the objects reached from a value
RECURSIVE Reach(_, _)
Reach(h, v) ==
    IF v.t # "ref" THEN {}
    ELSE {v.a} \cup UNION {Reach(h, Held(h[v.a])[i]) : i \in 1..Len(Held(h[v.a]))}

RECURSIVE SubstituteDeepInHeap(_, _, _)
RECURSIVE SubstituteAllInHeap(_, _, _)

SubstituteRest(first, later, p) ==
    ConsValue(first.value, SubstituteAllInHeap(first.heap, later, p))

\* the values of a comprehension of substitute_params_deep, each in turn
SubstituteAllInHeap(h, vs, p) ==
    IF vs = <<>> THEN [heap |-> h, values |-> <<>>]
    ELSE SubstituteRest(SubstituteDeepInHeap(h, Head(vs), p), Tail(vs), p)

\* a slip that returns a sequence as it is, without building a new one
SubstituteDeepSharingLists(h, o, p) ==
    IF o.t = "str" THEN [heap |-> h, value |-> StrV(substitute_params(o.s, p))]
    ELSE IF o.t = "ref" /\ h[o.a].t = "dict"
    THEN NewDict(Keys(h[o.a].items), SubstituteAllInHeap(h, DictValues(h[o.a].items), p))
    ELSE [heap |-> h, value |-> o]

\* substitute_params_deep(obj, params) with the objects it builds: [heap,
\* value]. A str gives a str, a map a new map, a sequence a new sequence, and
\* anything else is returned as it is.
SubstituteDeepInHeap(h, o, p) ==
    IF o.t = "str" THEN [heap |-> h, value |-> StrV(substitute_params(o.s, p))]
    ELSE IF o.t = "ref" /\ h[o.a].t = "dict"
    THEN NewDict(Keys(h[o.a].items), SubstituteAllInHeap(h, DictValues(h[o.a].items), p))
    ELSE IF o.t = "ref" THEN NewList(SubstituteAllInHeap(h, h[o.a].xs, p))
    ELSE [heap |-> h, value |-> o]

\* full_dict = {..., "metadata": app_dict.get("metadata", {}),
\*              "spec": app_dict.get("spec", app_dict)}: default is the {}
\* the call of get has built
FullDict(app, default) ==
    New(default.heap,
        DictV(<< <<S_apiVersion, StrV(S_argoproj)>>,
                 <<S_kind, StrV(S_Application)>>,
                 <<S_metadata, DictGet(default.heap[app.a].items, S_metadata, default.value)>>,
                 <<S_spec, DictGet(default.heap[app.a].items, S_spec, app)>> >>))

\* full_dict = {"apiVersion": ..., "kind": ..., **app_dict} when app_dict has
\* neither metadata nor spec
SpreadDict(app, full) ==
    LET d == full.heap[app.a].items
    IN  IF ~DictHas(d, S_metadata) /\ ~DictHas(d, S_spec)
        THEN New(full.heap, DictV(DictUpdate(<< <<S_apiVersion, StrV(S_argoproj)>>,
                                                <<S_kind, StrV(S_Application)>> >>, d)))
        ELSE full

\* the body of `for params in all_params` for the app_dict just built
EnvelopeInHeap(app_dict) ==
    SpreadDict(app_dict.value,
               FullDict(app_dict.value, New(app_dict.heap, DictV(<<>>))))

\* the most parameter sets the loop is run over
MaxCopies == 2

CopyParamPool ==
    { << <<S_name, StrV(<<"a">>)>>, <<<<"e", "n", "v">>, StrV(<<"p">>)>> >>,
      << <<S_name, StrV(<<"b">>)>>, <<S_path, StrV(<<"d">>)>> >>,
      <<>> }

\* a template that holds a number and an empty sequence
TPlain == DictV(<< <<S_spec, DictV(<< <<<<"n">>, IntV(1)>>, <<<<"l">>, ListV(<<>>)>> >>)>> >>)

InitCopy ==
    /\ pc = "build"
    /\ obj \in TemplatePool \cup {TPlain}
    /\ heap = Load(<<>>, obj).heap
    /\ appset = [generators |-> <<>>, template |-> Load(<<>>, obj).value]
    /\ all_params \in SeqsUpTo(CopyParamPool, MaxCopies)
    /\ applications = <<>>
    /\ result = Unused
    /\ resolver = Unused /\ fs = Unused /\ gi = Unused /\ generator = Unused
    /\ params = Unused /\ selector = Unused /\ tparams = Unused
    /\ args = Unused

\* one iteration of `for params in all_params`
BuildNext ==
    /\ pc = "build"
    /\ Len(applications) < Len(all_params)
    /\ LET full_dict == EnvelopeInHeap(SubstituteDeepInHeap(
                            heap, appset.template, all_params[Len(applications) + 1]))
       IN  heap' = full_dict.heap /\ applications' = Append(applications, full_dict.value)
    /\ UNCHANGED <<pc, appset, resolver, fs, gi, all_params, generator, result,
                   params, selector, obj, tparams, args>>

\* return applications
ReturnApplications ==
    /\ pc = "build"
    /\ Len(applications) = Len(all_params)
    /\ result' = applications
    /\ pc' = "done"
    /\ UNCHANGED <<appset, resolver, fs, gi, all_params, applications, generator,
                   params, selector, obj, tparams, heap, args>>

NextCopy == BuildNext \/ ReturnApplications

SpecCopy == InitCopy /\ [][NextCopy]_vars

\* C22: while expand_application_set builds the documents, the template stays
\* what it was; every document built is the envelope of the template
\* rewritten with its parameter set; and no map or sequence reached from a
\* document is reached from the template or from another document.
C22_IndependentCopies ==
    /\ Deref(heap, appset.template) = obj
    /\ \A i \in 1..Len(applications) :
          /\ Deref(heap, applications[i])
                = Envelope(substitute_params_deep(obj, all_params[i]))
          /\ Reach(heap, applications[i]) \cap Reach(heap, appset.template) = {}
          /\ \A j \in 1..Len(applications) :
                j # i => Reach(heap, applications[i]) \cap Reach(heap, applications[j]) = {}

\* two documents built from equal parameter sets of a template with nested
\* maps and sequences: equal in content, and each with objects of its own
C22_Witness ==
    /\ pc = "done" /\ Len(result) = 2
    /\ all_params[1] = all_params[2]
    /\ Cardinality(Reach(heap, appset.template)) >= 4
    /\ Deref(heap, result[1]) = Deref(heap, result[2])
    /\ Cardinality(Reach(heap, result[1]) \cup Reach(heap, result[2]))
          = 2 * Cardinality(Reach(heap, result[1]))
    /\ Cardinality(Reach(heap, result[1])) >= 4

-----------------------------------------------------------------------------
(* SpecResolve: RepoResolver.resolve called several times on one resolver,  *)
(* with no cleanup in between                                               *)

\* the most calls of resolve
MaxResolveCalls == 3

\* two spellings of one repository, another repository, the workspace's own
\* repository and no URL
ResolveUrlPool ==
    { <<"h", "t", "t", "p", "s", ":", "/", "/", "h", "/", "r", ".", "g", "i", "t">>, <<"g", "i", "t", "@", "h", ":", "r">>, <<"h", "/", "q">>, <<"h", "t", "t", "p", ":", "/", "/", "h", "/", "l", "/">>, <<>> }

\* no revision, and two branch names that differ in one character
ResolveRevisionPool == { <<>>, <<"a", "/", "b">>, <<"a", "_", "b">> }

\* every clone succeeds; the clone of h/q fails; a_b is no revision of h/r
ResolveResolverPool ==
    { [ResolverOk EXCEPT !.local_key = <<"h", "/", "l">>],
      [ResolverOk EXCEPT !.local_key = <<"h", "/", "l">>, !.fails = {<<"h", "/", "q">>}],
      [ResolverOk EXCEPT !.local_key = <<"h", "/", "l">>, !.badrevs = {<<<<"h", "/", "r">>, <<"a", "_", "b">>>>}] }

InitResolve ==
    /\ pc = "resolve"
    /\ resolver \in ResolveResolverPool
    /\ result = <<>>
    /\ appset = Unused /\ fs = Unused /\ gi = Unused /\ all_params = Unused
    /\ applications = Unused /\ generator = Unused
    /\ params = Unused /\ selector = Unused /\ obj = Unused /\ tparams = Unused
    /\ heap = Unused /\ args = Unused

\* resolver.resolve(repo_url, revision): result collects, for each call, its
\* arguments and what it gave
ResolveCall ==
    /\ pc = "resolve"
    /\ Len(result) < MaxResolveCalls
    /\ \E repo_url \in ResolveUrlPool, revision \in ResolveRevisionPool :
          LET r == Resolve(resolver, repo_url, revision)
          IN  /\ result' = Append(result, [repo_url |-> repo_url, revision |-> revision,
                                           raised |-> r.raised, path |-> r.path])
              /\ resolver' = r.rs
    /\ UNCHANGED <<pc, appset, fs, gi, all_params, applications, generator,
                   params, selector, obj, tparams, heap, args>>

NextResolve == ResolveCall

SpecResolve == InitResolve /\ [][NextResolve]_vars

\* the pair (normalized repository URL, revision) of a call
PairOf(call) == <<normalize_repo_url(call[1]), call[2]>>
PairOfResult(i) == <<normalize_repo_url(result[i].repo_url), result[i].revision>>

\* the call needs no clone: no URL, or the workspace's own repository
IsLocalCall(i) ==
    result[i].repo_url = <<>> \/ PairOfResult(i)[1] = resolver.local_key

\* C23 as stated: the clone operation runs at most once per pair; a later call
\* with the pair of an earlier one returns the path the earlier call cached;
\* calls with different revisions of one URL get clones of their own; and a
\* call with no URL or with the local repository's URL returns the workspace
\* and never clones.
C23_AsStated ==
    /\ \A i, j \in 1..Len(resolver.cloned) :
          i # j => PairOf(resolver.cloned[i]) # PairOf(resolver.cloned[j])
    /\ \A i, j \in 1..Len(result) :
          (i < j /\ ~IsLocalCall(i) /\ PairOfResult(i) = PairOfResult(j)) =>
              /\ ~result[j].raised
              /\ result[j].path = result[i].path
    /\ \A i, j \in 1..Len(result) :
          (~IsLocalCall(i) /\ ~result[i].raised /\ ~result[j].raised
           /\ PairOfResult(i)[1] = PairOfResult(j)[1]
           /\ PairOfResult(i)[2] # PairOfResult(j)[2]) =>
              result[i].path # result[j].path
    /\ \A i \in 1..Len(result) :
          IsLocalCall(i) =>
              /\ ~result[i].raised /\ result[i].path = Workspace
              /\ \A c \in 1..Len(resolver.cloned) :
                    PairOf(resolver.cloned[c]) # PairOfResult(i)

-----------------------------------------------------------------------------
(* src/src/diff.py: compare_manifests. A directory that exists is a key of  *)
(* the filesystem; below it are directories and files, each named by the    *)
(* parts of its path, and a file is what it holds. Every directory a file   *)
(* or a directory lies in is a directory of the tree.                       *)

\* the paths _validate_state_dir_path refuses
CriticalPaths == {"/", "/home", "/etc", "/usr", "/var", "/tmp"}

NoTree == [dirs |-> {}, files |-> <<>>]

\* any(directory.iterdir())
HasEntries(tree, directory) ==
    tree[directory].dirs # {} \/ DOMAIN tree[directory].files # {}

\* _collect_files, relative to the directory
collect_files(tree, directory) ==
    IF directory \in DOMAIN tree THEN DOMAIN tree[directory].files ELSE {}

\* [str(rel) for rel in sorted(rels)]
SortedNames(rels) ==
    LET sorted == SortedPaths(rels)
    IN  [i \in 1..Len(sorted) |-> PathStr(sorted[i])]

\* _compare_directories: the three lists of the summary
compare_directories(tree, state_dir, manifests_dir) ==
    LET state_rel == collect_files(tree, state_dir)
        manifest_rel == collect_files(tree, manifests_dir)
    IN  [added_files |-> SortedNames(manifest_rel \ state_rel),
         removed_files |-> SortedNames(state_rel \ manifest_rel),
         modified_files |->
             SortedNames({rel \in state_rel \cap manifest_rel :
                             tree[state_dir].files[rel] # tree[manifests_dir].files[rel]})]

\* for item in manifests_dir.iterdir(): copytree(..., dirs_exist_ok=True) or
\* copy2: the entries of manifests_dir laid over what state_dir holds
CopyManifests(tree, state_dir, manifests_dir) ==
    [tree EXCEPT ![state_dir] =
        [dirs |-> @.dirs \cup tree[manifests_dir].dirs,
         files |-> tree[manifests_dir].files @@ @.files]]

\* state_dir.mkdir(parents=True, exist_ok=True)
Mkdir(tree, directory) ==
    IF directory \in DOMAIN tree THEN tree ELSE (directory :> NoTree) @@ tree

\* _update_state_dir: every entry of state_dir removed, the manifests copied
update_state_dir(tree, state_dir, manifests_dir) ==
    CopyManifests([tree EXCEPT ![state_dir] = NoTree], state_dir, manifests_dir)

\* a DiffSummary, and the raising of an error
Summary(status, lists) ==
    [raised |-> FALSE, status |-> status, added_files |-> lists.added_files,
     removed_files |-> lists.removed_files, modified_files |-> lists.modified_files]
NoLists == [added_files |-> <<>>, removed_files |-> <<>>, modified_files |-> <<>>]
Raised == [raised |-> TRUE]

\* summary.has_changes
HasChanges(lists) ==
    lists.added_files # <<>> \/ lists.removed_files # <<>> \/ lists.modified_files # <<>>

\* _initialize_state: [tree, summary]
initialize_state(tree, state_dir, manifests_dir) ==
    [tree |-> CopyManifests(Mkdir(tree, state_dir), state_dir, manifests_dir),
     summary |-> Summary("initialized", NoLists)]

\* the comparison and the update of compare_manifests
CompareAndUpdate(tree, state_dir, manifests_dir, update, lists) ==
    [tree |-> IF update THEN update_state_dir(tree, state_dir, manifests_dir)
              ELSE tree,
     summary |-> Summary(IF HasChanges(lists) THEN "changed" ELSE "unchanged", lists)]

\* compare_manifests(state_dir, manifests_dir, update_state): [tree, summary],
\* the texts of the summary (diff_text, comment_body) left out
compare_manifests(tree, state_dir, manifests_dir, update) ==
    IF manifests_dir \notin DOMAIN tree THEN [tree |-> tree, summary |-> Raised]
    ELSE IF state_dir \in CriticalPaths THEN [tree |-> tree, summary |-> Raised]
    ELSE IF state_dir \notin DOMAIN tree \/ ~HasEntries(tree, state_dir)
    THEN initialize_state(tree, state_dir, manifests_dir)
    ELSE CompareAndUpdate(tree, state_dir, manifests_dir, update,
                          compare_directories(tree, state_dir, manifests_dir))

-----------------------------------------------------------------------------
(* SpecDiff: compare_manifests called several times in succession with the  *)
(* same directories, the manifests directory left as it is in between       *)

\* the most calls of one run
MaxDiffCalls == 2

P_a == << <<"a">> >>
P_d == << <<"d">> >>
P_d_b == << <<"d">>, <<"b">> >>

\* what a directory holds: nothing, one file, the file with other contents,
\* a file and a file in a subdirectory, an empty subdirectory, and a file in
\* a subdirectory alone
DiffTreePool ==
    { NoTree,
      [dirs |-> {}, files |-> (P_a :> "1")],
      [dirs |-> {}, files |-> (P_a :> "2")],
      [dirs |-> {P_d}, files |-> (P_a :> "1") @@ (P_d_b :> "1")],
      [dirs |-> {P_d}, files |-> <<>>],
      [dirs |-> {P_d}, files |-> (P_d_b :> "2")] }

\* the filesystems with the directory there, and the one without it
DirChoices(directory) == {<<>>} \cup {directory :> t : t \in DiffTreePool}

InitDiff ==
    /\ pc = "call"
    /\ args \in [state_dir : {"/w/state", "/tmp"}, manifests_dir : {"/w/manifests"},
                 update_state : [1..MaxDiffCalls -> BOOLEAN]]
    /\ \E s \in DirChoices(args.state_dir), m \in DirChoices(args.manifests_dir) :
          fs = s @@ m
    /\ result = <<>>
    /\ appset = Unused /\ resolver = Unused /\ gi = Unused /\ all_params = Unused
    /\ applications = Unused /\ generator = Unused
    /\ params = Unused /\ selector = Unused /\ obj = Unused /\ tparams = Unused
    /\ heap = Unused

\* summary = compare_manifests(state_dir, manifests_dir, update_state): result
\* collects the summaries of the calls
Compare ==
    /\ pc = "call"
    /\ LET r == compare_manifests(fs, args.state_dir, args.manifests_dir,
                                  args.update_state[Len(result) + 1])
       IN  fs' = r.tree /\ result' = Append(result, r.summary)
    /\ pc' = IF Len(result) + 1 = MaxDiffCalls THEN "done" ELSE "call"
    /\ UNCHANGED <<appset, resolver, gi, all_params, applications, generator,
                   params, selector, obj, tparams, heap, args>>

NextDiff == Compare

SpecDiff == InitDiff /\ [][NextDiff]_vars

\* C24 as stated: after a call with update_state enabled has returned, the
\* call that follows over the same manifests directory returns "unchanged"
\* with no added, removed or modified file.
C24_AsStated ==
    \A k \in 1..(Len(result) - 1) :
        (args.update_state[k] /\ ~result[k].raised) =>
            result[k + 1] = Summary("unchanged", NoLists)

\* what the state directory is: absent, or what it holds
StateOf(tree) == IF args.state_dir \in DOMAIN tree THEN <<tree[args.state_dir]>> ELSE <<>>

\* C27 as stated: a call with update_state false leaves the state directory
\* as it was, whether it held files, was empty or did not exist.
C27_AsStated ==
    [][(pc = "call" /\ ~args.update_state[Len(result) + 1])
          => StateOf(fs') = StateOf(fs)]_vars

-----------------------------------------------------------------------------
(* SpecDispatch: the order of the variants, and of values and selector *)

\* the keys of the variants, in the order of precedence
Precedence == <<"list", "git", "clusters", "matrix", "merge">>

VariantKeys(g) == {Precedence[i] : i \in 1..Len(Precedence)} \cap DOMAIN g

\* the first key of the precedence order that g has
FirstVariantKey(g) ==
    Precedence[CHOOSE i \in 1..Len(Precedence) :
                  /\ Has(g, Precedence[i])
                  /\ \A j \in 1..(i - 1) : ~Has(g, Precedence[j])]

\* g without the keys of the variants that come after the first
FirstVariantOnly(g) ==
    [k \in DOMAIN g \ (VariantKeys(g) \ {FirstVariantKey(g)}) |-> g[k]]

\* the resolver before the first call: nothing cached, nothing cloned
ResolverAtStart ==
    [resolver EXCEPT !.cache = <<>>, !.clones = <<>>, !.cloned = <<>>]

\* C25: a configuration with the keys of one or more variants is expanded as
\* if it had only the first of them in the order list, git, clusters,
\* matrix, merge: the same parameter sets or error, and the same calls of
\* the resolver.
C25_FirstVariantInOrderWins ==
    (pc = "once" /\ VariantKeys(generator) # {}) =>
        /\ result[1] = Returned(expand_generator(ResolverAtStart, fs,
                                                 FirstVariantOnly(generator)))
        /\ resolver = expand_generator(ResolverAtStart, fs,
                                       FirstVariantOnly(generator)).rs

\* a list generator that also has the key of a git generator of another
\* repository: the list's parameter sets come back and nothing was cloned
C25_Witness ==
    /\ pc = "once"
    /\ VariantKeys(generator) = {"list", "git"}
    /\ Get(generator.git, "repoURL", <<>>) = U_ext
    /\ ~result[1].raised /\ Len(result[1].params) = 1
    /\ resolver.cloned = <<>> /\ resolver.cache = <<>>

\* the configuration without its selector
WithoutSelector(g) == [k \in DOMAIN g \ {"selector"} |-> g[k]]

\* the parameter set holds under the key what the selector asks for
LabelHolds(p, label) == PyStr(DictGet(p, label[1], StrV(<<>>))) = PyStr(label[2])
SelectorKeeps(p, sel) ==
    /\ \A i \in 1..Len(Get(sel, "matchLabels", <<>>)) : LabelHolds(p, sel.matchLabels[i])
    /\ \A i \in 1..Len(Get(sel, "matchExpressions", <<>>)) :
          ExprHolds(p, sel.matchExpressions[i])

\* C26: for a configuration with values and a selector, the parameter sets
\* returned are, in order, those of the configuration without the selector
\* (the values.<k> keys in place) that the selector matches.
C26_SelectorSeesValues ==
    (pc = "once" /\ Variant(generator) # "unsupported" /\ ~result[1].raised
     /\ Has(generator, "values") /\ SelectorGiven(generator)) =>
        result[1].params
            = SelectSeq(expand_generator(ResolverAtStart, fs,
                                         WithoutSelector(generator)).params,
                        LAMBDA p : SelectorKeeps(p, generator.selector))

\* a selector on values.v = 1 keeps a parameter set the generator had made
\* with another values.v, because the configured value 1 is in place
C26_Witness ==
    /\ pc = "once" /\ ~result[1].raised
    /\ Has(generator, "values") /\ SelectorGiven(generator)
    /\ Has(generator.selector, "matchLabels")
    /\ generator.selector.matchLabels[1][1] = S_values \o <<"v">>
    /\ \E r \in 1..Len(result[1].params) :
          \E q \in 1..Len(expand_generator(ResolverAtStart, fs, Bare(generator)).params) :
              LET produced == expand_generator(ResolverAtStart, fs, Bare(generator)).params[q]
              IN  /\ DictGet(produced, S_name, NoneV) = DictGet(result[1].params[r], S_name, NoneV)
                  /\ DictHas(produced, S_values \o <<"v">>)
                  /\ ~SelectorKeeps(produced, generator.selector)
                  /\ SelectorKeeps(result[1].params[r], generator.selector)

-----------------------------------------------------------------------------
(* Spec: the markers of the documents *)

\* C28 as stated: every document returned has apiVersion argoproj.io/v1alpha1
\* and kind Application, whatever the top-level fields of the template.
C28_AsStated ==
    pc = "done" =>
        \A i \in 1..Len(result) :
            /\ Field(result[i], S_apiVersion) = StrV(S_argoproj)
            /\ Field(result[i], S_kind) = StrV(S_Application)

-----------------------------------------------------------------------------
(* SpecSubst: replacement of all the tokens at once *)

\* the key of p whose token text starts with, if there is one
TokenKeysAt(text, p) == {k \in KeySet(p) : StartsWith(text, Token(k))}

\* every token of the original text replaced by its key's value, the text
\* read once from left to right and no inserted value read again (for keys
\* without braces, where the tokens of a text cannot overlap)
RECURSIVE ReplaceAllAtOnce(_, _)
ReplaceAllAtOnce(text, p) ==
    IF text = <<>> THEN <<>>
    ELSE IF TokenKeysAt(text, p) # {}
    THEN LET k == CHOOSE k \in TokenKeysAt(text, p) : TRUE
         IN  PyStr(DictGet(p, k, Unused))
                 \o ReplaceAllAtOnce(SubSeq(text, Len(Token(k)) + 1, Len(text)), p)
    ELSE <<Head(text)>> \o ReplaceAllAtOnce(Tail(text), p)

RECURSIVE ReplaceAllAtOnceDeep(_, _)
ReplaceAllAtOnceDeep(o, p) ==
    IF o.t = "str" THEN StrV(ReplaceAllAtOnce(o.s, p))
    ELSE IF o.t = "dict"
         THEN DictV([i \in 1..Len(o.items) |->
                        <<o.items[i][1], ReplaceAllAtOnceDeep(o.items[i][2], p)>>])
    ELSE IF o.t = "list"
         THEN ListV([i \in 1..Len(o.xs) |-> ReplaceAllAtOnceDeep(o.xs[i], p)])
    ELSE o

\* the same parameter set with its keys inserted in the opposite order
Reversed(p) == [i \in 1..Len(p) |-> p[Len(p) + 1 - i]]

\* C29 as stated: for keys without braces, the result is the template with
\* every token of the original strings replaced at once by its own key's
\* value, and it is the same when the keys are processed in another order.
C29_AsStated ==
    (pc = "done" /\ \A k \in KeySet(tparams) : BraceFree(k)) =>
        /\ result = ReplaceAllAtOnceDeep(obj, tparams)
        /\ result = substitute_params_deep(obj, Reversed(tparams))

-----------------------------------------------------------------------------
(* SpecMerge: the merge-key fields taken one by one *)

\* the string forms of the merge-key fields of a parameter set, field by
\* field, an absent field counted as the empty string
FieldsOf(p) ==
    [i \in 1..Len(generator.mergeKeys) |->
        PyStr(DictGet(p, generator.mergeKeys[i], StrV(<<>>)))]

FirstFields == {FieldsOf(ChildResults[1][i]) : i \in 1..Len(ChildResults[1])}

\* the first child's parameter set an entry of fields F is seeded from
SeedOfFields(F) ==
    LET first == ChildResults[1]
        i == CHOOSE i \in 1..Len(first) :
                 /\ FieldsOf(first[i]) = F
                 /\ \A j \in (i + 1)..Len(first) : FieldsOf(first[j]) # F
    IN  first[i]

\* the later parameter sets that agree with F on every merge-key field
OverlaysOfFields(F) == SelectSeq(LaterParams, LAMBDA p : FieldsOf(p) = F)

\* C30 as stated: the output has one entry for each different tuple of
\* merge-key fields among the first child's parameter sets, and each entry is
\* its seed overlaid with exactly the later parameter sets that agree with the
\* seed on every merge-key field.
C30_AsStated ==
    (pc = "done" /\ generator.generators # <<>>) =>
        /\ Len(result.params) = Cardinality(FirstFields)
        /\ \A F \in FirstFields :
              \E r \in 1..Len(result.params) :
                  IsUnionOf(result.params[r], <<SeedOfFields(F)>> \o OverlaysOfFields(F))

=============================================================================
